---- MODULE Spec2Model ----
(***************************************************************************)
(* Change detection and deduplication of the streamer notification bot.    *)
(*                                                                         *)
(* Content polling (main.js, NotificationHandler.js, database.js): a poll  *)
(* cycle visits every configured streamer, fetches its latest videos and,  *)
(* per video, evaluates (shouldNotify), delivers (sendNotification) and    *)
(* commits (markAsSent).  Every awaited call is one step of a cycle, so    *)
(* that two cycles started by different timers interleave at the awaits.   *)
(*                                                                         *)
(* Spec        : poll cycles run one after another.                        *)
(* SpecOverlap : a second trigger may start a cycle while one is running   *)
(*               (checkForNewContent has no processing flag).              *)
(***************************************************************************)
EXTENDS Integers, Sequences, FiniteSets, TLC

\* ------------------------------------------------------------------ bounds
\* poll cycles started in one behaviour
MaxCycles == 2
\* videos returned by one getLatestVideos call
MaxVideos == 2
\* feed cycles (processRssFeeds bodies) started in one behaviour
MaxFeedCycles == 2
\* items of one fetched feed
MaxFeedItems == 3
\* messageCreate events followed
MaxMessages == 3
\* POST /api/sticky-messages/:channelId/send requests followed
MaxForces == 1

\* ------------------------------------------------------------ the domains
\* Video ids are sequences of tokens; "_" is the character split('_') cuts at.
Ids == { <<"v", "_", "1">> }

Titles == { "t1", "t2" }

\* snippet.liveBroadcastContent of the platform
Broadcasts == { "live", "upcoming", "none" }

Null == "null"

NoDoc == [exists |-> FALSE]

\* The cycles that can be in flight: the 5 s one-shot and the cron/interval tick.
Procs == { 1, 2 }

\* config.streamers
Streamers == << "s1" >>

\* a configuration with a second streamer
TwoStreamers == << "s1", "s2" >>

Kinds == { "initial", "status_change" }

\* ---------------------------------------------------------- pure functions
\* YouTubeService.getVideoDetails: the two flags of a fetched video
MakeVideo(id, title, broadcast) ==
    [ id |-> id, title |-> title,
      isLive |-> (broadcast = "live"), isUpcoming |-> (broadcast = "upcoming") ]

Videos == { MakeVideo(i, t, b) : i \in Ids, t \in Titles, b \in Broadcasts }

\* NotificationHandler.getVideoStatus
getVideoStatus(video) ==
    IF video.isLive THEN "live"
    ELSE IF video.isUpcoming THEN "upcoming"
    ELSE "video"

\* `${contentId}_live_status_change`
Suffix == << "_", "live", "_", "status", "_", "change" >>

StatusChangeDocId(contentId) == contentId \o Suffix

\* Mutant: every marker goes under the derived key.
MarkerDocIdAlwaysDerived(contentId, notificationType) == StatusChangeDocId(contentId)

\* every marker goes under the plain content id
MarkerDocIdAlwaysPlain(contentId, notificationType) == contentId

\* NotificationHandler.markAsSent: the document id of a marker
MarkerDocId(contentId, notificationType) ==
    IF notificationType = "status_change" THEN StatusChangeDocId(contentId)
    ELSE contentId

DocIds == Ids \cup { StatusChangeDocId(i) : i \in Ids }

\* The characters of a video id, and the video ids of the platform: all of one
\* length (item.id.videoId)
IdTokens == { "v", "_", "1", "live", "status", "change" }

VideoIds == [ 1..3 -> IdTokens ]

\* docId.includes('_') ? docId.split('_')[0] : docId
RECURSIVE SplitFirst(_)
SplitFirst(s) ==
    IF s = << >> \/ Head(s) = "_" THEN << >>
    ELSE << Head(s) >> \o SplitFirst(Tail(s))

\* videoInfo.title || ''
OrEmpty(t) == IF t = Null \/ t = "" THEN "" ELSE t

DecisionOf(shouldNotify, notificationType, statusChanged, previousStatus) ==
    [ shouldNotify |-> shouldNotify, statusChanged |-> statusChanged,
      previousStatus |-> previousStatus, notificationType |-> notificationType ]

\* Mutant: any change away from 'upcoming' counts as the start of the stream.
CheckNotificationStatusFromUpcoming(previousStatus, currentStatus, initialSent, statusChangeSent) ==
    LET statusChanged == previousStatus # Null /\ previousStatus # currentStatus
    IN  IF ~initialSent
        THEN DecisionOf(TRUE, "initial", statusChanged, previousStatus)
        ELSE IF statusChanged /\ previousStatus = "upcoming" /\ ~statusChangeSent
        THEN DecisionOf(TRUE, "status_change", statusChanged, previousStatus)
        ELSE DecisionOf(FALSE, "initial", statusChanged, previousStatus)

\* Mutant: the first notification is skipped for ordinary videos.
CheckNotificationStatusSkipsVideo(previousStatus, currentStatus, initialSent, statusChangeSent) ==
    LET statusChanged == previousStatus # Null /\ previousStatus # currentStatus
    IN  IF ~initialSent /\ currentStatus # "video"
        THEN DecisionOf(TRUE, "initial", statusChanged, previousStatus)
        ELSE IF statusChanged /\ previousStatus = "upcoming" /\ currentStatus = "live"
                 /\ ~statusChangeSent
        THEN DecisionOf(TRUE, "status_change", statusChanged, previousStatus)
        ELSE DecisionOf(FALSE, "initial", statusChanged, previousStatus)

\* Mutant: the status_change marker is not consulted.
CheckNotificationStatusNoChangeMarker(previousStatus, currentStatus, initialSent, statusChangeSent) ==
    LET statusChanged == previousStatus # Null /\ previousStatus # currentStatus
    IN  IF ~initialSent
        THEN DecisionOf(TRUE, "initial", statusChanged, previousStatus)
        ELSE IF statusChanged /\ previousStatus = "upcoming" /\ currentStatus = "live"
        THEN DecisionOf(TRUE, "status_change", statusChanged, previousStatus)
        ELSE DecisionOf(FALSE, "initial", statusChanged, previousStatus)

\* Mutant: every change of status to 'live' is notified.
CheckNotificationStatusAnyToLive(previousStatus, currentStatus, initialSent, statusChangeSent) ==
    LET statusChanged == previousStatus # Null /\ previousStatus # currentStatus
    IN  IF ~initialSent
        THEN DecisionOf(TRUE, "initial", statusChanged, previousStatus)
        ELSE IF statusChanged /\ currentStatus = "live" /\ ~statusChangeSent
        THEN DecisionOf(TRUE, "status_change", statusChanged, previousStatus)
        ELSE DecisionOf(FALSE, "initial", statusChanged, previousStatus)

\* The decision of Database.checkNotificationStatus once its three reads
\* have succeeded.
CheckNotificationStatus(previousStatus, currentStatus, initialSent, statusChangeSent) ==
    LET statusChanged == previousStatus # Null /\ previousStatus # currentStatus
    IN  IF ~initialSent
        THEN [ shouldNotify |-> TRUE, statusChanged |-> statusChanged,
               previousStatus |-> previousStatus, notificationType |-> "initial" ]
        ELSE IF statusChanged /\ previousStatus = "upcoming" /\ currentStatus = "live"
                 /\ ~statusChangeSent
        THEN [ shouldNotify |-> TRUE, statusChanged |-> statusChanged,
               previousStatus |-> previousStatus, notificationType |-> "status_change" ]
        ELSE [ shouldNotify |-> FALSE, statusChanged |-> statusChanged,
               previousStatus |-> previousStatus, notificationType |-> "initial" ]

\* A failed read answered by a decision to notify
CheckFailedOpen ==
    [ shouldNotify |-> TRUE, statusChanged |-> FALSE,
      previousStatus |-> Null, notificationType |-> "initial" ]

\* The catch block of Database.checkNotificationStatus
CheckFailed ==
    [ shouldNotify |-> FALSE, statusChanged |-> FALSE,
      previousStatus |-> Null, notificationType |-> "initial" ]

\* The catch block of NotificationHandler.shouldNotify
ShouldNotifyFailed ==
    [ shouldNotify |-> FALSE, statusChanged |-> FALSE,
      previousStatus |-> "undefined", notificationType |-> "initial" ]

\* Mutant: the merge keeps the stored title of an existing document.
StatusRecordKeepsTitle(old, contentId, status, title, existed, now) ==
    [ exists |-> TRUE, contentId |-> contentId, status |-> status,
      title |-> IF old.exists THEN old.title ELSE OrEmpty(title),
      streamerName |-> "", platform |-> "youtube",
      createdAt |-> IF ~existed THEN now
                    ELSE IF old.exists THEN old.createdAt ELSE Null ]

\* The upsert with createdAt set by every call
StatusRecordAlwaysCreated(old, contentId, status, title, existed, now) ==
    [ exists |-> TRUE, contentId |-> contentId, status |-> status,
      title |-> OrEmpty(title), streamerName |-> "", platform |-> "youtube",
      createdAt |-> now ]

\* The fields Database.updateVideoStatus sets; createdAt only when the
\* document did not exist at the inner get ({ merge: true } keeps the rest).
StatusRecord(old, contentId, status, title, existed, now) ==
    [ exists |-> TRUE, contentId |-> contentId, status |-> status,
      title |-> OrEmpty(title), streamerName |-> "", platform |-> "youtube",
      createdAt |-> IF ~existed THEN now
                    ELSE IF old.exists THEN old.createdAt ELSE Null ]

\* The document Database.markAsSent sets
MarkerRecord(docId, status, notificationType) ==
    [ exists |-> TRUE,
      contentId |-> IF \E k \in 1..Len(docId) : docId[k] = "_"
                    THEN SplitFirst(docId) ELSE docId,
      docId |-> docId, status |-> status, notificationType |-> notificationType ]

\* getLatestVideos returns at most maxResults videos
Batches == UNION { [1..n -> Videos] : n \in 0..MaxVideos }

\* ------------------------------------------------------------ feed items
\* config.rss.feeds (enabled ones) and the channels of a feed
Feeds == << "f1" >>

\* a configuration with a second feed
TwoFeeds == << "f1", "f2" >>

\* config.scheduler: the mode, and whether cron.validate accepts the pattern
\* config.getCronPattern() returns
Schedulers ==
    { [ mode |-> "cron", cronValid |-> TRUE ],
      [ mode |-> "cron", cronValid |-> FALSE ],
      [ mode |-> "interval", cronValid |-> TRUE ] }

\* the configuration without environment overrides: mode 'cron', minutes 1,16,31,46
DefaultScheduler == [ mode |-> "cron", cronValid |-> TRUE ]

\* config.notification: useDisplayComponents (false also stands for a streamer's
\* displaySettings.forceDisableDisplayComponents) and fallbackToLegacy;
\* statusChange tells the checkStreamerContent with status change detection
\* from the one that sends with a fallback. The values are the operator's: the
\* configuration file is edited to set them
NotificationConfigs ==
    [ statusChange : BOOLEAN, useDisplayComponents : BOOLEAN, fallbackToLegacy : BOOLEAN ]

\* the defaults of config.notification, in the bot with status change detection
DefaultNotification ==
    [ statusChange |-> TRUE, useDisplayComponents |-> TRUE, fallbackToLegacy |-> TRUE ]

\* config.stickyMessages.channels, the enabled ones
StickyChannels == { "k1" }

\* the channels messages are posted in
MessageChannels == { "k1", "k2" }

\* sticky timers, named by the number of the message that armed them
Timeouts == 1..MaxMessages

\* the calls of forceSendStickyMessage, numbered after the timers
ForceCalls == (MaxMessages + 1)..(MaxMessages + MaxForces)

\* the calls of sendStickyMessage: one per timer, one per forced send; a sticky
\* message is named by the call that sent it
Calls == Timeouts \cup ForceCalls

\* feed.url, the document id of rss_status
FeedUrls == { "f1", "f2" }

FeedChannels == << "c1", "c2" >>

\* what getFavicon leaves in faviconUrl
FaviconUrls == { Null, "icon" }

\* milliseconds per second: new Date(dateStr._seconds * 1000)
MsPerSecond == 1000

Guids == { Null, "g1", "g2", "g3" }

\* A date value: absent (null / undefined), a string Date cannot parse, or the
\* time in milliseconds
NoDate == [ kind |-> "absent", ms |-> 0 ]

InvalidDate == [ kind |-> "invalid", ms |-> 0 ]

At(t) == [ kind |-> "time", ms |-> t ]

\* pubDate of a fetched item
PubDates == { NoDate, InvalidDate, At(1000), At(1500), At(2000) }

ItemTitles == { Null, "a", "b" }

FeedItems == [ guid : Guids, pubDate : PubDates, title : ItemTitles ]

\* The items the polled feed publishes over time: three entries with distinct
\* guids and publish dates, and one without guid whose date cannot be parsed
PublishedItems ==
    { [ guid |-> "g1", pubDate |-> At(1000), title |-> "a" ],
      [ guid |-> "g2", pubDate |-> At(1500), title |-> "b" ],
      [ guid |-> "g3", pubDate |-> At(2000), title |-> "a" ],
      [ guid |-> Null, pubDate |-> InvalidDate, title |-> "b" ] }

\* feedData.items of one parseURL: any selection of the published items in
\* any order
FeedBatches == UNION { [1..n -> PublishedItems] : n \in 0..MaxFeedItems }

\* feedData.items holding a single item, of any shape
SingleItemBatches == { << item >> : item \in FeedItems }

\* JavaScript truthiness of an optional string
Truthy(x) == x # Null /\ x # ""

\* JavaScript truthiness of an optional date string or Date
HasDate(d) == d.kind # "absent"

\* isNaN(new Date(pubDate).getTime())
IsNaNDate(d) == d.kind = "invalid"

\* RssDatabase.parseDate of what updateRssStatus is given:
\* lastItem.pubDate ? new Date(lastItem.pubDate) : null
ParseDate(pubDate) ==
    IF ~HasDate(pubDate) THEN NoDate
    ELSE IF IsNaNDate(pubDate) THEN NoDate
    ELSE At(pubDate.ms)

\* RssDatabase.parseDate of a stored Timestamp: new Date(dateStr._seconds * 1000)
ParseStoredDate(stored) ==
    IF ~HasDate(stored) THEN NoDate
    ELSE At((stored.ms \div MsPerSecond) * MsPerSecond)

\* FeedFormatter.safeCompareDate(item.pubDate, lastProcessed.lastPublishDate)
safeCompareDate(date1, date2) ==
    IF ~HasDate(date1) \/ ~HasDate(date2) THEN FALSE
    ELSE IF IsNaNDate(date1) \/ IsNaNDate(date2) THEN FALSE
    ELSE date1.ms > date2.ms

\* lastProcessed when no rss_status document is found or its read fails
NoCursor == [ lastItemId |-> Null, lastPublishDate |-> NoDate, lastTitle |-> Null ]

\* RssDatabase.getRssStatus of an existing document
CursorOf(doc) ==
    [ lastItemId |-> IF Truthy(doc.lastItemId) THEN doc.lastItemId ELSE Null,
      lastPublishDate |-> ParseStoredDate(doc.lastPublishDate),
      lastTitle |-> IF Truthy(doc.lastTitle) THEN doc.lastTitle ELSE Null ]

\* The classification with the publish date compared before the guid
IsNewDateFirst(item, lastProcessed) ==
    IF HasDate(item.pubDate) /\ HasDate(lastProcessed.lastPublishDate)
    THEN safeCompareDate(item.pubDate, lastProcessed.lastPublishDate)
    ELSE IF Truthy(item.guid) /\ Truthy(lastProcessed.lastItemId)
    THEN item.guid # lastProcessed.lastItemId
    ELSE IF Truthy(item.title) /\ Truthy(lastProcessed.lastTitle)
    THEN item.title # lastProcessed.lastTitle
    ELSE TRUE

\* The classification that drops an item no rule applies to
IsNewFailClosed(item, lastProcessed) ==
    IF Truthy(item.guid) /\ Truthy(lastProcessed.lastItemId)
    THEN item.guid # lastProcessed.lastItemId
    ELSE IF HasDate(item.pubDate) /\ HasDate(lastProcessed.lastPublishDate)
    THEN safeCompareDate(item.pubDate, lastProcessed.lastPublishDate)
    ELSE IF Truthy(item.title) /\ Truthy(lastProcessed.lastTitle)
    THEN item.title # lastProcessed.lastTitle
    ELSE FALSE

\* processRssFeeds: the classification of one fetched item
IsNew(item, lastProcessed) ==
    IF Truthy(item.guid) /\ Truthy(lastProcessed.lastItemId)
    THEN item.guid # lastProcessed.lastItemId
    ELSE IF HasDate(item.pubDate) /\ HasDate(lastProcessed.lastPublishDate)
    THEN safeCompareDate(item.pubDate, lastProcessed.lastPublishDate)
    ELSE IF Truthy(item.title) /\ Truthy(lastProcessed.lastTitle)
    THEN item.title # lastProcessed.lastTitle
    ELSE TRUE

\* processRssFeeds: newItems before the sort, in fetched order
RECURSIVE FilterNew(_, _)
FilterNew(items, lastProcessed) ==
    IF items = << >> THEN << >>
    ELSE (IF IsNew(Head(items), lastProcessed) THEN << Head(items) >> ELSE << >>)
         \o FilterNew(Tail(items), lastProcessed)

\* The comparator handed to newItems.sort: negative, zero or positive
CompareItems(a, b) ==
    LET dateA == IF HasDate(a.pubDate) THEN a.pubDate.ms ELSE 0
        dateB == IF HasDate(b.pubDate) THEN b.pubDate.ms ELSE 0
    IN  IF IsNaNDate(a.pubDate) \/ IsNaNDate(b.pubDate) THEN 0 ELSE dateA - dateB

\* Array.prototype.sort of the runtime on a short array: the initial run is
\* found (a strictly descending one is reversed), the remaining elements are
\* inserted by binary search.
RECURSIVE RunLength(_, _, _)
RunLength(a, idx, descending) ==
    IF idx > Len(a) THEN idx - 1
    ELSE LET order == CompareItems(a[idx], a[idx - 1])
         IN  IF (descending /\ order >= 0) \/ (~descending /\ order < 0)
             THEN idx - 1
             ELSE RunLength(a, idx + 1, descending)

Reverse(a) == [ k \in 1..Len(a) |-> a[Len(a) + 1 - k] ]

RECURSIVE InsertionPoint(_, _, _, _)
InsertionPoint(a, pivot, left, right) ==
    IF left >= right THEN left
    ELSE LET mid == left + ((right - left) \div 2)
         IN  IF CompareItems(pivot, a[mid]) < 0
             THEN InsertionPoint(a, pivot, left, mid)
             ELSE InsertionPoint(a, pivot, mid + 1, right)

RECURSIVE BinaryInsertionSort(_, _)
BinaryInsertionSort(a, start) ==
    IF start > Len(a) THEN a
    ELSE LET pivot == a[start]
             left == InsertionPoint(a, pivot, 1, start)
             moved == [ k \in 1..Len(a) |->
                          IF k < left \/ k > start THEN a[k]
                          ELSE IF k = left THEN pivot
                          ELSE a[k - 1] ]
         IN  BinaryInsertionSort(moved, start + 1)

\* The new items left in fetched order
KeepFetchedOrder(a) == a

\* newItems.sort((a, b) => ...)
SortNewItems(a) ==
    IF Len(a) < 2 THEN a
    ELSE LET descending == CompareItems(a[2], a[1]) < 0
             run == RunLength(a, 3, descending)
             made == IF descending
                     THEN Reverse(SubSeq(a, 1, run)) \o SubSeq(a, run + 1, Len(a))
                     ELSE a
         IN  BinaryInsertionSort(made, run + 1)

\* The document RssDatabase.updateRssStatus writes for the last new item
CursorRecord(feedUrl, lastItem) ==
    [ exists |-> TRUE, feedUrl |-> feedUrl,
      lastItemId |-> IF Truthy(lastItem.guid) THEN lastItem.guid ELSE Null,
      lastPublishDate |-> ParseDate(lastItem.pubDate),
      lastTitle |-> IF Truthy(lastItem.title) THEN lastItem.title ELSE Null ]

\* ------------------------------------------------------------------- state
VARIABLES
    videoStatus,        \* collection video_status: id -> document
    sentNotifications,  \* collection sent_notifications: docId -> document
    pc,                 \* where each cycle stands
    sidx,               \* index of the streamer a cycle is visiting
    videos,             \* the videos of that streamer still to handle; Head = current
    previousStatus,     \* checkNotificationStatus: status read from video_status
    initialSent,        \* checkNotificationStatus: initialSentDoc.exists
    notificationCheck,  \* the result shouldNotify returns
    storeError,         \* "none", "read" (checkNotificationStatus), "write" (updateVideoStatus), "both"
    existed,            \* updateVideoStatus: the inner get found the document
    sendDone,           \* channel.send resolved for the current video
    cycles,             \* poll cycles started so far (the clock of the timestamps)
    markerWrites,       \* docId -> number of sent_notifications documents set
    initialNotifies,    \* id -> evaluations that decided to notify with kind initial
    faults,             \* id -> a decided notification was not delivered and committed
    delivered,          \* id -> channel.send resolved for a notification of the item
    rssStatus,          \* collection rss_status: feed url -> document
    isProcessing,       \* RssService.isProcessing
    rssPc,              \* where the running processRssFeeds body stands
    fidx,               \* index of the feed it is processing
    feedItems,          \* feedData.items of that feed
    lastProcessed,      \* the cursor the items are compared with
    newItems,           \* the sorted new items
    nidx,               \* index of the new item being dispatched
    chan,               \* index of the channel it is dispatched to
    feedCycles,         \* processRssFeeds bodies started so far
    skips,              \* processRssFeeds calls that returned at the isProcessing test
    bodies,             \* processRssFeeds bodies past the test and not yet through finally
    itemOk,             \* the current item was sent to every channel so far
    deliveredNow,       \* guids sent to every channel in the running body
    dispatchedBefore,   \* guids sent to every channel by an earlier body that saved its cursor
    threw,              \* the streamers (by index) whose check threw in the running cycle
    invocations,        \* docId -> calls of sendNotification for it in the running cycle
    feedThrew,          \* the feeds (by index) whose processing threw in the running body
    faviconUrl,         \* faviconUrl of the feed being processed, when the sends are followed
    webhookSends,       \* calls of webhook.send in the pass of the channel loop last begun
    streamers,          \* config.streamers
    rssFeeds,           \* config.rss.feeds, the enabled ones
    scheduler,          \* config.scheduler: mode, and whether the cron pattern validates
    notification,       \* config.notification, and which checkStreamerContent the bot runs
    ready,              \* the client's 'ready' handler has run
    exited,             \* process.exit was called
    shutdownRun,        \* gracefulShutdown has run
    checkInterval,      \* this.checkInterval holds a running interval timer
    cronTask,           \* this.cronTask holds a scheduled cron task
    firstCheck,         \* the 5 s one-shot timer of startPeriodicCheck is pending
    rssFirst,           \* the 5 s one-shot timer of startScheduledProcessing is pending
    rssCronTask,        \* the 10 minute cron task of startScheduledProcessing is scheduled
    messages,           \* messageCreate events handled so far; the message's number names its timer
    timeouts,           \* call -> "unset", "armed", "cleared" (timers), or where the call stands
    timeoutChannel,     \* call -> the channel of the message that armed it, or of the request
    pendingTimeouts,    \* StickyMessageHandler.pendingTimeouts: channel -> timer, 0 when absent
    stickyIsProcessing, \* StickyMessageHandler.isProcessing: the channels being processed
    stickyMessageId,    \* sticky_messages: channel -> messageId of its document, 0 without document
    liveStickies,       \* channel -> the sticky messages sent to it and not deleted
    previousMessageId,  \* call -> previousMessageId of its deletePreviousStickyMessage
    uncovered,          \* channel -> a user message was posted and no sticky message after it
    stickyFailed        \* a fetch, a delete, a send or a store access of the handler has failed

config == << streamers, rssFeeds, scheduler, notification >>
oneShots == << firstCheck, rssFirst >>
armed == << ready, exited, shutdownRun, checkInterval, cronTask, rssCronTask >>
stickyVars == << messages, timeouts, timeoutChannel, pendingTimeouts, stickyIsProcessing,
                 stickyMessageId, liveStickies, previousMessageId, uncovered, stickyFailed >>
store == << videoStatus, sentNotifications >>
locals == << previousStatus, initialSent, notificationCheck, storeError, existed, sendDone >>
ghosts == << markerWrites, initialNotifies, faults >>
webhookVars == << faviconUrl, webhookSends >>
rssVars == << rssStatus, isProcessing, rssPc, fidx, feedItems, lastProcessed, newItems,
              nidx, chan, feedCycles, itemOk, deliveredNow, dispatchedBefore, feedThrew,
              skips, bodies, faviconUrl, webhookSends >>
contentVars == << videoStatus, sentNotifications, pc, sidx, videos, previousStatus,
                  initialSent, notificationCheck, storeError, existed, sendDone, cycles,
                  markerWrites, initialNotifies, faults, threw, delivered, invocations >>
vars == << videoStatus, sentNotifications, pc, sidx, videos, previousStatus,
           initialSent, notificationCheck, storeError, existed, sendDone, cycles,
           markerWrites, initialNotifies, faults,
           rssStatus, isProcessing, rssPc, fidx, feedItems, lastProcessed, newItems,
           nidx, chan, feedCycles, itemOk, deliveredNow, dispatchedBefore,
           threw, feedThrew, skips, bodies, delivered, streamers, rssFeeds,
           notification, scheduler, faviconUrl, webhookSends, ready, exited, shutdownRun, checkInterval, cronTask, firstCheck,
           rssFirst, rssCronTask, messages, timeouts, timeoutChannel, pendingTimeouts,
           stickyMessageId, liveStickies, previousMessageId, uncovered, stickyFailed,
           stickyIsProcessing, invocations >>

NoCheck ==
    [ shouldNotify |-> FALSE, statusChanged |-> FALSE,
      previousStatus |-> Null, notificationType |-> "none" ]

\* The state once the bot is constructed with a configuration, the rss_status
\* collection holding what earlier runs of the bot saved
Startup(configStreamers, configFeeds, configScheduler, configNotification, savedStatus) ==
    /\ streamers = configStreamers
    /\ scheduler = configScheduler
    /\ notification = configNotification
    /\ ready = FALSE
    /\ exited = FALSE
    /\ shutdownRun = FALSE
    /\ checkInterval = FALSE
    /\ cronTask = FALSE
    /\ firstCheck = FALSE
    /\ rssFirst = FALSE
    /\ rssCronTask = FALSE
    /\ messages = 0
    /\ timeouts = [ t \in Calls |-> "unset" ]
    /\ timeoutChannel = [ t \in Calls |-> Null ]
    /\ stickyMessageId = [ ch \in MessageChannels |-> 0 ]
    /\ liveStickies = [ ch \in MessageChannels |-> { } ]
    /\ previousMessageId = [ t \in Calls |-> 0 ]
    /\ uncovered = [ ch \in MessageChannels |-> FALSE ]
    /\ stickyFailed = FALSE
    /\ pendingTimeouts = [ ch \in MessageChannels |-> 0 ]
    /\ stickyIsProcessing = { }
    /\ rssFeeds = configFeeds
    /\ videoStatus = [ i \in Ids |-> NoDoc ]
    /\ sentNotifications = [ d \in DocIds |-> NoDoc ]
    /\ pc = [ p \in Procs |-> "idle" ]
    /\ sidx = [ p \in Procs |-> 0 ]
    /\ videos = [ p \in Procs |-> << >> ]
    /\ previousStatus = [ p \in Procs |-> Null ]
    /\ initialSent = [ p \in Procs |-> FALSE ]
    /\ notificationCheck = [ p \in Procs |-> NoCheck ]
    /\ storeError = [ p \in Procs |-> "none" ]
    /\ existed = [ p \in Procs |-> FALSE ]
    /\ sendDone = [ p \in Procs |-> FALSE ]
    /\ cycles = 0
    /\ markerWrites = [ d \in DocIds |-> 0 ]
    /\ initialNotifies = [ i \in Ids |-> 0 ]
    /\ faults = [ i \in Ids |-> FALSE ]
    /\ delivered = [ i \in Ids |-> FALSE ]
    /\ rssStatus = savedStatus
    /\ isProcessing = FALSE
    /\ rssPc = "idle"
    /\ fidx = 0
    /\ feedItems = << >>
    /\ lastProcessed = NoCursor
    /\ newItems = << >>
    /\ nidx = 0
    /\ chan = 0
    /\ feedCycles = 0
    /\ skips = 0
    /\ bodies = 0
    /\ itemOk = FALSE
    /\ deliveredNow = { }
    /\ dispatchedBefore = { }
    /\ threw = [ p \in Procs |-> { } ]
    /\ invocations = [ p \in Procs |-> [ d \in DocIds |-> 0 ] ]
    /\ feedThrew = { }
    /\ faviconUrl = Null
    /\ webhookSends = 0

Init == Startup(Streamers, Feeds, DefaultScheduler, DefaultNotification, [ f \in FeedUrls |-> NoDoc ])

video(p) == Head(videos[p])

\* the first await of the loop body of checkStreamerContent: shouldNotify, or
\* isNewContent in the bot that sends with a fallback
FirstStep == IF notification.statusChange THEN "readStatus" ELSE "isNewContent"

ResetLocals(p) ==
    /\ previousStatus' = [ previousStatus EXCEPT ![p] = Null ]
    /\ initialSent' = [ initialSent EXCEPT ![p] = FALSE ]
    /\ notificationCheck' = [ notificationCheck EXCEPT ![p] = NoCheck ]
    /\ storeError' = [ storeError EXCEPT ![p] = "none" ]
    /\ existed' = [ existed EXCEPT ![p] = FALSE ]
    /\ sendDone' = [ sendDone EXCEPT ![p] = FALSE ]

\* A streamer is left, an error ending the whole cycle
LeaveStreamerAborts(p, failed) ==
    /\ videos' = [ videos EXCEPT ![p] = << >> ]
    /\ IF sidx[p] < Len(streamers) /\ ~failed
       THEN /\ pc' = [ pc EXCEPT ![p] = "getLatestVideos" ]
            /\ sidx' = [ sidx EXCEPT ![p] = @ + 1 ]
            /\ threw' = threw
            /\ invocations' = invocations
       ELSE /\ pc' = [ pc EXCEPT ![p] = "idle" ]
            /\ sidx' = [ sidx EXCEPT ![p] = 0 ]
            /\ threw' = [ threw EXCEPT ![p] = { } ]
            /\ invocations' = [ invocations EXCEPT ![p] = [ d \in DocIds |-> 0 ] ]
    /\ ResetLocals(p)

\* checkStreamerContent is left: the for loop over config.streamers moves on;
\* after the last streamer the cycle is complete.
LeaveStreamer(p, failed) ==
    /\ videos' = [ videos EXCEPT ![p] = << >> ]
    /\ IF sidx[p] < Len(streamers)
       THEN /\ pc' = [ pc EXCEPT ![p] = "getLatestVideos" ]
            /\ sidx' = [ sidx EXCEPT ![p] = @ + 1 ]
            /\ threw' = [ threw EXCEPT ![p] = IF failed THEN @ \cup { sidx[p] } ELSE @ ]
            /\ invocations' = invocations
       ELSE /\ pc' = [ pc EXCEPT ![p] = "idle" ]
            /\ sidx' = [ sidx EXCEPT ![p] = 0 ]
            /\ threw' = [ threw EXCEPT ![p] = { } ]
            /\ invocations' = [ invocations EXCEPT ![p] = [ d \in DocIds |-> 0 ] ]
    /\ ResetLocals(p)

\* checkStreamerContent returns after its loop
AdvanceStreamer(p) == LeaveStreamer(p, FALSE)

\* checkStreamerContent: catch (error) logs, and the streamer is left
StreamerThrows(p) == LeaveStreamer(p, TRUE)

\* checkStreamerContent: the for loop over videos moves on
AdvanceVideo(p) ==
    IF Len(videos[p]) > 1
    THEN /\ videos' = [ videos EXCEPT ![p] = Tail(@) ]
         /\ pc' = [ pc EXCEPT ![p] = FirstStep ]
         /\ sidx' = sidx
         /\ threw' = threw
         /\ invocations' = invocations
         /\ ResetLocals(p)
    ELSE AdvanceStreamer(p)

\* checkForNewContent is entered: the loop over config.streamers begins
CheckForNewContent(p) ==
    /\ pc[p] = "idle"
    /\ UNCHANGED << rssVars, config, armed, stickyVars >>
    /\ cycles < MaxCycles
    /\ cycles' = cycles + 1
    /\ UNCHANGED delivered
    /\ pc' = [ pc EXCEPT ![p] = "getLatestVideos" ]
    /\ sidx' = [ sidx EXCEPT ![p] = 1 ]
    /\ threw' = threw
    /\ invocations' = invocations
    /\ UNCHANGED << store, videos, locals, ghosts >>

\* A timer (5 s one-shot, cron tick or interval tick) calls checkForNewContent.
StartCycle(p) == CheckForNewContent(p) /\ UNCHANGED oneShots

\* checkStreamerContent: await youtubeService.getLatestVideos(...)
GetLatestVideos(p, fetched) ==
    /\ pc[p] = "getLatestVideos"
    /\ UNCHANGED << rssVars, config, armed, oneShots, stickyVars >>
    /\ \/ \E vs \in fetched :
             IF vs = << >>
             THEN AdvanceStreamer(p)
             ELSE /\ videos' = [ videos EXCEPT ![p] = vs ]
                  /\ pc' = [ pc EXCEPT ![p] = FirstStep ]
                  /\ UNCHANGED << sidx, threw, invocations, locals >>
       \/ StreamerThrows(p)      \* the fetch throws: the streamer is skipped
    /\ UNCHANGED << store, cycles, delivered, ghosts >>

\* checkNotificationStatus: await videoStatus.doc(contentId).get()
ReadStatusDoc(p) ==
    /\ pc[p] = "readStatus"
    /\ UNCHANGED << rssVars, config, armed, oneShots, stickyVars >>
    /\ \/ /\ previousStatus' = [ previousStatus EXCEPT ![p] =
                 IF videoStatus[video(p).id].exists
                 THEN videoStatus[video(p).id].status ELSE Null ]
          /\ pc' = [ pc EXCEPT ![p] = "readInitial" ]
          /\ UNCHANGED << notificationCheck, storeError >>
       \/ /\ notificationCheck' = [ notificationCheck EXCEPT ![p] = CheckFailed ]
          /\ storeError' = [ storeError EXCEPT ![p] = "read" ]
          /\ pc' = [ pc EXCEPT ![p] = "updateGet" ]
          /\ UNCHANGED previousStatus
    /\ UNCHANGED << store, sidx, threw, invocations, videos, initialSent, existed, sendDone, cycles, delivered, ghosts >>

\* checkNotificationStatus: await sentNotifications.doc(contentId).get()
ReadInitialDoc(p) ==
    /\ pc[p] = "readInitial"
    /\ UNCHANGED << rssVars, config, armed, oneShots, stickyVars >>
    /\ \/ /\ initialSent' = [ initialSent EXCEPT ![p] =
                 sentNotifications[video(p).id].exists ]
          /\ pc' = [ pc EXCEPT ![p] = "readChange" ]
          /\ UNCHANGED << notificationCheck, storeError >>
       \/ /\ notificationCheck' = [ notificationCheck EXCEPT ![p] = CheckFailed ]
          /\ storeError' = [ storeError EXCEPT ![p] = "read" ]
          /\ pc' = [ pc EXCEPT ![p] = "updateGet" ]
          /\ UNCHANGED initialSent
    /\ UNCHANGED << store, sidx, threw, invocations, videos, previousStatus, existed, sendDone, cycles, delivered, ghosts >>

\* checkNotificationStatus: await sentNotifications.doc(`${contentId}_live_status_change`).get(),
\* then the decision
ReadChangeDoc(p) ==
    /\ pc[p] = "readChange"
    /\ UNCHANGED << rssVars, config, armed, oneShots, stickyVars >>
    /\ \/ LET r == CheckNotificationStatus(previousStatus[p], getVideoStatus(video(p)),
                         initialSent[p],
                         sentNotifications[StatusChangeDocId(video(p).id)].exists)
          IN  /\ notificationCheck' = [ notificationCheck EXCEPT ![p] = r ]
              /\ initialNotifies' =
                     IF r.shouldNotify /\ r.notificationType = "initial"
                     THEN [ initialNotifies EXCEPT ![video(p).id] = @ + 1 ]
                     ELSE initialNotifies
              /\ UNCHANGED storeError
       \/ /\ notificationCheck' = [ notificationCheck EXCEPT ![p] = CheckFailed ]
          /\ storeError' = [ storeError EXCEPT ![p] = "read" ]
          /\ UNCHANGED initialNotifies
    /\ pc' = [ pc EXCEPT ![p] = "updateGet" ]
    /\ UNCHANGED << store, sidx, threw, invocations, videos, previousStatus, initialSent, existed, sendDone,
                    cycles, delivered, markerWrites, faults >>

\* shouldNotify returning the result of the check though updateVideoStatus threw
UpdateFailsKeepsDecision(p) ==
    /\ notificationCheck' = notificationCheck
    /\ storeError' = [ storeError EXCEPT ![p] = IF @ = "read" THEN "both" ELSE "write" ]
    /\ faults' = faults
    /\ pc' = [ pc EXCEPT ![p] = "evaluated" ]

\* shouldNotify's catch block: updateVideoStatus threw
UpdateFails(p) ==
    /\ notificationCheck' = [ notificationCheck EXCEPT ![p] = ShouldNotifyFailed ]
    /\ storeError' = [ storeError EXCEPT ![p] = IF @ = "read" THEN "both" ELSE "write" ]
    /\ faults' = IF notificationCheck[p].shouldNotify
                 THEN [ faults EXCEPT ![video(p).id] = TRUE ] ELSE faults
    /\ pc' = [ pc EXCEPT ![p] = "evaluated" ]

\* updateVideoStatus: the get inside the document literal,
\* !(await videoStatus.doc(contentId).get()).exists
UpdateVideoStatusGet(p) ==
    /\ pc[p] = "updateGet"
    /\ UNCHANGED << rssVars, config, armed, oneShots, stickyVars >>
    /\ \/ /\ existed' = [ existed EXCEPT ![p] = videoStatus[video(p).id].exists ]
          /\ pc' = [ pc EXCEPT ![p] = "updateSet" ]
          /\ UNCHANGED << notificationCheck, storeError, faults >>
       \/ /\ UpdateFails(p)
          /\ UNCHANGED existed
    /\ UNCHANGED << store, sidx, threw, invocations, videos, previousStatus, initialSent, sendDone, cycles, delivered,
                    markerWrites, initialNotifies >>

\* updateVideoStatus: await videoStatus.doc(contentId).set({...}, { merge: true });
\* then shouldNotify returns the result of the check
UpdateVideoStatusSet(p) ==
    /\ pc[p] = "updateSet"
    /\ UNCHANGED << rssVars, config, armed, oneShots, stickyVars >>
    /\ \/ /\ videoStatus' = [ videoStatus EXCEPT ![video(p).id] =
                 StatusRecord(@, video(p).id, getVideoStatus(video(p)), video(p).title,
                              existed[p], cycles) ]
          /\ pc' = [ pc EXCEPT ![p] = "evaluated" ]
          /\ UNCHANGED << notificationCheck, storeError, faults >>
       \/ /\ UpdateFails(p)
          /\ UNCHANGED videoStatus
    /\ UNCHANGED << sentNotifications, sidx, threw, invocations, videos, previousStatus, initialSent, existed,
                    sendDone, cycles, delivered, markerWrites, initialNotifies >>

\* checkStreamerContent calling markAsSent before sendNotification
EvaluatedCommitsFirst(p) ==
    /\ pc[p] = "evaluated"
    /\ UNCHANGED << rssVars, config, armed, oneShots, stickyVars >>
    /\ IF notificationCheck[p].shouldNotify
       THEN /\ pc' = [ pc EXCEPT ![p] = "markAsSent" ]
            /\ UNCHANGED << sidx, threw, invocations, videos, locals >>
       ELSE AdvanceVideo(p)
    /\ UNCHANGED << store, cycles, delivered, ghosts >>

\* checkStreamerContent: if (notificationCheck.shouldNotify) { ... } else { ... }
Evaluated(p) ==
    /\ pc[p] = "evaluated"
    /\ UNCHANGED << rssVars, config, armed, oneShots, stickyVars >>
    /\ IF notificationCheck[p].shouldNotify
       THEN /\ pc' = [ pc EXCEPT ![p] = "fetchChannel" ]
            /\ invocations' = [ invocations EXCEPT
                  ![p][MarkerDocId(video(p).id, notificationCheck[p].notificationType)] = @ + 1 ]
            /\ UNCHANGED << sidx, threw, videos, locals >>
       ELSE AdvanceVideo(p)
    /\ UNCHANGED << store, cycles, delivered, ghosts >>

\* sendNotification: await this.client.channels.fetch(channelId)
FetchChannel(p) ==
    /\ pc[p] = "fetchChannel"
    /\ UNCHANGED << rssVars, config, armed, oneShots, stickyVars >>
    /\ \/ /\ pc' = [ pc EXCEPT ![p] = "send" ]     \* the channel
          /\ UNCHANGED << sidx, threw, invocations, videos, locals, faults >>
       \/ /\ pc' = [ pc EXCEPT ![p] = "markAsSent" ]   \* !channel: return
          /\ faults' = [ faults EXCEPT ![video(p).id] = TRUE ]
          /\ UNCHANGED << sidx, threw, invocations, videos, locals >>
       \/ /\ StreamerThrows(p)                     \* rejects: rethrown to checkStreamerContent
          /\ faults' = [ faults EXCEPT ![video(p).id] = TRUE ]
    /\ UNCHANGED << store, cycles, delivered, markerWrites, initialNotifies >>

\* checkStreamerContent catching the error of channel.send per video
ChannelSendSkipsVideo(p) ==
    /\ pc[p] = "send"
    /\ UNCHANGED << rssVars, config, armed, oneShots, stickyVars >>
    /\ \/ /\ sendDone' = [ sendDone EXCEPT ![p] = TRUE ]
          /\ delivered' = [ delivered EXCEPT ![video(p).id] = TRUE ]
          /\ pc' = [ pc EXCEPT ![p] = "markAsSent" ]
          /\ UNCHANGED << sidx, threw, invocations, videos, previousStatus, initialSent, notificationCheck,
                          storeError, existed, faults >>
       \/ /\ AdvanceVideo(p)
          /\ faults' = [ faults EXCEPT ![video(p).id] = TRUE ]
          /\ UNCHANGED delivered
    /\ UNCHANGED << store, cycles, markerWrites, initialNotifies >>

\* sendNotification: await channel.send(messageData)
ChannelSend(p) ==
    /\ pc[p] = "send"
    /\ UNCHANGED << rssVars, config, armed, oneShots, stickyVars >>
    /\ \/ /\ sendDone' = [ sendDone EXCEPT ![p] = TRUE ]
          /\ delivered' = [ delivered EXCEPT ![video(p).id] = TRUE ]
          /\ pc' = [ pc EXCEPT ![p] = "markAsSent" ]
          /\ UNCHANGED << sidx, threw, invocations, videos, previousStatus, initialSent, notificationCheck,
                          storeError, existed, faults >>
       \/ /\ StreamerThrows(p)                     \* rejects: rethrown to checkStreamerContent
          /\ faults' = [ faults EXCEPT ![video(p).id] = TRUE ]
          /\ UNCHANGED delivered
    /\ UNCHANGED << store, cycles, markerWrites, initialNotifies >>

\* markAsSent with the error of the marker write thrown on to checkStreamerContent
MarkAsSentRethrows(p) ==
    /\ pc[p] = "markAsSent"
    /\ UNCHANGED << rssVars, config, armed, oneShots, stickyVars >>
    /\ LET docId == MarkerDocId(video(p).id, notificationCheck[p].notificationType)
       IN  \/ /\ sentNotifications' = [ sentNotifications EXCEPT ![docId] =
                        MarkerRecord(docId, getVideoStatus(video(p)),
                                     notificationCheck[p].notificationType) ]
              /\ markerWrites' = [ markerWrites EXCEPT ![docId] = @ + 1 ]
              /\ UNCHANGED faults
              /\ AdvanceVideo(p)
           \/ /\ faults' = [ faults EXCEPT ![video(p).id] = TRUE ]
              /\ UNCHANGED << sentNotifications, markerWrites >>
              /\ StreamerThrows(p)
    /\ UNCHANGED << videoStatus, cycles, delivered, initialNotifies >>

\* NotificationHandler.markAsSent -> Database.markAsSent:
\* await sentNotifications.doc(docId).set({...}); an error is logged and swallowed
MarkAsSent(p) ==
    /\ pc[p] = "markAsSent"
    /\ UNCHANGED << rssVars, config, armed, oneShots, stickyVars >>
    /\ LET docId == MarkerDocId(video(p).id, notificationCheck[p].notificationType)
       IN  \/ /\ sentNotifications' = [ sentNotifications EXCEPT ![docId] =
                        MarkerRecord(docId, getVideoStatus(video(p)),
                                     notificationCheck[p].notificationType) ]
              /\ markerWrites' = [ markerWrites EXCEPT ![docId] = @ + 1 ]
              /\ UNCHANGED faults
           \/ /\ faults' = [ faults EXCEPT ![video(p).id] = TRUE ]
              /\ UNCHANGED << sentNotifications, markerWrites >>
    /\ AdvanceVideo(p)
    /\ UNCHANGED << videoStatus, cycles, delivered, initialNotifies >>

\* ------------------------------------------- sending with a fallback
\* isNewContent: checkIfSent answers false when its read fails; a new video goes
\* to sendNotificationWithFallback, which sends the legacy form at once when
\* Display Components are off
IsNewContent(p) ==
    /\ pc[p] = "isNewContent"
    /\ UNCHANGED << rssVars, config, armed, oneShots, stickyVars >>
    /\ \E exists \in { sentNotifications[video(p).id].exists, FALSE } :
          IF ~exists
          THEN /\ pc' = [ pc EXCEPT ![p] = IF notification.useDisplayComponents
                                            THEN "sendRich" ELSE "sendLegacy" ]
               /\ UNCHANGED << sidx, threw, invocations, videos, locals >>
          ELSE AdvanceVideo(p)
    /\ UNCHANGED << store, cycles, delivered, ghosts >>

\* What one send call comes to: the message is sent, channels.fetch gives no
\* channel and the call returns, or the call rejects
SendOutcomes == { "sent", "noChannel", "throws" }

\* the outcome of a send that does not reject
SendReturns(p, outcome) ==
    /\ pc' = [ pc EXCEPT ![p] = "commit" ]
    /\ sendDone' = [ sendDone EXCEPT ![p] = (outcome = "sent") ]
    /\ delivered' = [ delivered EXCEPT ![video(p).id] = @ \/ outcome = "sent" ]
    /\ faults' = [ faults EXCEPT ![video(p).id] = @ \/ outcome = "noChannel" ]
    /\ UNCHANGED << sidx, threw, invocations, videos, previousStatus, initialSent,
                    notificationCheck, storeError, existed >>

\* the error of a send reaches the catch of checkStreamerContent
SendPropagates(p) ==
    /\ StreamerThrows(p)
    /\ faults' = [ faults EXCEPT ![video(p).id] = TRUE ]
    /\ UNCHANGED delivered

\* sendNotificationWithFallback rethrowing the first error though fallbackToLegacy is set
SendRichNoFallback(p) ==
    /\ pc[p] = "sendRich"
    /\ UNCHANGED << rssVars, config, armed, oneShots, stickyVars >>
    /\ \E outcome \in SendOutcomes :
          IF outcome # "throws" THEN SendReturns(p, outcome) ELSE SendPropagates(p)
    /\ UNCHANGED << store, cycles, markerWrites, initialNotifies >>

\* sendNotificationWithFallback: await sendNotification (Display Components);
\* its error is caught and, with fallbackToLegacy, the legacy form is tried
SendRich(p) ==
    /\ pc[p] = "sendRich"
    /\ UNCHANGED << rssVars, config, armed, oneShots, stickyVars >>
    /\ \E outcome \in SendOutcomes :
          IF outcome # "throws" THEN SendReturns(p, outcome)
          ELSE IF notification.fallbackToLegacy
          THEN /\ pc' = [ pc EXCEPT ![p] = "fallback" ]
               /\ UNCHANGED << sidx, threw, invocations, videos, locals, delivered, faults >>
          ELSE SendPropagates(p)
    /\ UNCHANGED << store, cycles, markerWrites, initialNotifies >>

\* sendNotificationWithFallback: await sendLegacyNotification, as the first send
\* or as the fallback; its error is logged and thrown on
SendLegacy(p) ==
    /\ pc[p] \in { "sendLegacy", "fallback" }
    /\ UNCHANGED << rssVars, config, armed, oneShots, stickyVars >>
    /\ \E outcome \in SendOutcomes :
          IF outcome # "throws" THEN SendReturns(p, outcome) ELSE SendPropagates(p)
    /\ UNCHANGED << store, cycles, markerWrites, initialNotifies >>

\* markAsSent(video.id, streamer.name, streamer.platform): the marker of the
\* video is set; an error is logged and swallowed
MarkAsSentFallback(p) ==
    /\ pc[p] = "commit"
    /\ UNCHANGED << rssVars, config, armed, oneShots, stickyVars >>
    /\ \/ /\ sentNotifications' = [ sentNotifications EXCEPT ![video(p).id] =
                   MarkerRecord(video(p).id, "video", "initial") ]
          /\ markerWrites' = [ markerWrites EXCEPT ![video(p).id] = @ + 1 ]
          /\ UNCHANGED faults
       \/ /\ faults' = [ faults EXCEPT ![video(p).id] = TRUE ]
          /\ UNCHANGED << sentNotifications, markerWrites >>
    /\ AdvanceVideo(p)
    /\ UNCHANGED << videoStatus, cycles, delivered, initialNotifies >>

\* The bot that sends with a fallback, under any notification configuration
InitFallback ==
    \E configStreamers \in { Streamers, TwoStreamers },
       configNotification \in { n \in NotificationConfigs : ~n.statusChange } :
        Startup(configStreamers, Feeds, DefaultScheduler, configNotification,
                [ f \in FeedUrls |-> NoDoc ])

NextFallback ==
    \/ StartCycle(1)
    \/ GetLatestVideos(1, Batches)
    \/ IsNewContent(1)
    \/ SendRich(1)
    \/ SendLegacy(1)
    \/ MarkAsSentFallback(1)

SpecFallback == InitFallback /\ [][NextFallback]_vars

\* One step of a cycle under way: the continuation after one of its awaits
CheckSteps(p, fetched) ==
    \/ GetLatestVideos(p, fetched)
    \/ ReadStatusDoc(p)
    \/ ReadInitialDoc(p)
    \/ ReadChangeDoc(p)
    \/ UpdateVideoStatusGet(p)
    \/ UpdateVideoStatusSet(p)
    \/ Evaluated(p)
    \/ FetchChannel(p)
    \/ ChannelSend(p)
    \/ MarkAsSent(p)

Step(p, fetched) ==
    \/ StartCycle(p)
    \/ CheckSteps(p, fetched)

\* Poll cycles one after another: every cycle ends before the next tick.
Next == Step(1, Batches)

Spec == Init /\ [][Next]_vars

\* A tick may fire while a cycle is still awaiting.
\* The overlapping cycles are followed on fetches of a single video.
OverlapBatches == { vs \in Batches : Len(vs) = 1 /\ vs[1].title = "t1" }

NextOverlap == \E p \in Procs : Step(p, OverlapBatches)

SpecOverlap == Init /\ [][NextOverlap]_vars

\* ------------------------------------------------------- feed processing
\* the loop over rssFeeds with a finally block that leaves isProcessing set
LeaveFeedKeepsFlag(failed) ==
    /\ feedItems' = << >>
    /\ lastProcessed' = NoCursor
    /\ newItems' = << >>
    /\ nidx' = 0
    /\ chan' = 0
    /\ itemOk' = FALSE
    /\ IF fidx < Len(rssFeeds)
       THEN /\ fidx' = fidx + 1
            /\ rssPc' = "parseURL"
            /\ feedThrew' = IF failed THEN feedThrew \cup { fidx } ELSE feedThrew
            /\ UNCHANGED << isProcessing, bodies >>
       ELSE /\ fidx' = 0
            /\ rssPc' = "idle"
            /\ feedThrew' = { }
            /\ UNCHANGED << isProcessing, bodies >>

\* processRssFeeds: the for loop over rssFeeds moves on; after the last feed the
\* finally block clears the flag.
LeaveFeed(failed) ==
    /\ feedItems' = << >>
    /\ lastProcessed' = NoCursor
    /\ newItems' = << >>
    /\ nidx' = 0
    /\ chan' = 0
    /\ itemOk' = FALSE
    /\ IF fidx < Len(rssFeeds)
       THEN /\ fidx' = fidx + 1
            /\ rssPc' = "parseURL"
            /\ feedThrew' = IF failed THEN feedThrew \cup { fidx } ELSE feedThrew
            /\ UNCHANGED << isProcessing, bodies >>
       ELSE /\ fidx' = 0
            /\ rssPc' = "idle"
            /\ feedThrew' = { }
            /\ isProcessing' = FALSE
            /\ bodies' = bodies - 1

\* the try block of a feed ends
AdvanceFeed == LeaveFeed(FALSE)

\* catch (error) of a feed logs, and the feed is left
FeedThrows == LeaveFeed(TRUE)

\* processRssFeeds without the test of isProcessing
ProcessRssFeedsUnguarded ==
    /\ feedCycles + skips < MaxFeedCycles
    /\ isProcessing' = TRUE
    /\ bodies' = bodies + 1
    /\ feedCycles' = feedCycles + 1
    /\ UNCHANGED skips
    /\ rssPc' = "parseURL"
    /\ fidx' = 1
    /\ feedThrew' = feedThrew
    /\ deliveredNow' = { }
    /\ UNCHANGED << rssStatus, feedItems, lastProcessed, newItems, nidx, chan, itemOk,
                    dispatchedBefore >>
    /\ UNCHANGED << contentVars, webhookVars, config, armed, oneShots, stickyVars >>

\* processRssFeeds finds isProcessing false, sets it and enters the try block
\* (with an empty list it returns at once, finally clearing the flag it set)
EnterProcessRssFeeds ==
    /\ ~isProcessing
    /\ feedCycles + skips < MaxFeedCycles
    /\ feedCycles' = feedCycles + 1
    /\ UNCHANGED skips
    /\ IF Len(rssFeeds) = 0
       THEN UNCHANGED << isProcessing, bodies, rssPc, fidx >>
       ELSE /\ isProcessing' = TRUE
            /\ bodies' = bodies + 1
            /\ rssPc' = "parseURL"
            /\ fidx' = 1
    /\ feedThrew' = feedThrew
    /\ deliveredNow' = { }
    /\ UNCHANGED << rssStatus, feedItems, lastProcessed, newItems, nidx, chan, itemOk,
                    dispatchedBefore >>
    /\ UNCHANGED << contentVars, webhookVars, config, armed, stickyVars >>

\* A trigger (5 s one-shot or the 10 minute cron) calls processRssFeeds.
ProcessRssFeeds == EnterProcessRssFeeds /\ UNCHANGED oneShots

\* processRssFeeds finds isProcessing set: warn and return
SkipProcessRssFeeds ==
    /\ isProcessing
    /\ feedCycles + skips < MaxFeedCycles
    /\ skips' = skips + 1
    /\ UNCHANGED << rssStatus, isProcessing, bodies, rssPc, fidx, feedItems, lastProcessed,
                    newItems, nidx, chan, feedCycles, itemOk, deliveredNow,
                    dispatchedBefore, feedThrew >>
    /\ UNCHANGED << contentVars, webhookVars, config, armed, stickyVars >>

\* processRssFeeds called while a body is running
ProcessRssFeedsSkipped == SkipProcessRssFeeds /\ UNCHANGED oneShots

\* await this.parser.parseURL(feed.url)
ParseURL(fetched) ==
    /\ rssPc = "parseURL"
    /\ \/ \E items \in fetched :
             /\ feedItems' = items
             /\ rssPc' = "getRssStatus"
             /\ UNCHANGED << isProcessing, bodies, fidx, feedThrew, lastProcessed, newItems, nidx, chan, itemOk >>
       \/ FeedThrows           \* the fetch throws: the feed is skipped
    /\ UNCHANGED << rssStatus, feedCycles, skips, deliveredNow, dispatchedBefore >>
    /\ UNCHANGED << contentVars, webhookVars, config, armed, oneShots, stickyVars >>

\* await this.rssDatabase.getRssStatus(feed.url) || {...}, the filter and the
\* sort, up to await getFavicon(domain)
GetRssStatus ==
    /\ rssPc = "getRssStatus"
    /\ \E last \in { IF rssStatus[rssFeeds[fidx]].exists
                     THEN CursorOf(rssStatus[rssFeeds[fidx]]) ELSE NoCursor,
                     NoCursor } :        \* a failed read returns null
          /\ lastProcessed' = last
          /\ newItems' = SortNewItems(FilterNew(feedItems, last))
          /\ rssPc' = "getFavicon"
          /\ UNCHANGED << isProcessing, bodies, fidx, feedThrew, feedItems, nidx, chan, itemOk >>
    /\ UNCHANGED << rssStatus, feedCycles, skips, deliveredNow, dispatchedBefore >>
    /\ UNCHANGED << contentVars, webhookVars, config, armed, oneShots, stickyVars >>

\* getFavicon resolved or its error was logged: the loop over newItems starts;
\* without new items the feed is done
AwaitGetFavicon ==
    /\ rssPc = "getFavicon"
    /\ IF newItems = << >>
       THEN AdvanceFeed
       ELSE /\ nidx' = 1
            /\ chan' = 1
            /\ itemOk' = TRUE
            /\ rssPc' = "dispatch"
            /\ UNCHANGED << isProcessing, bodies, fidx, feedThrew, feedItems, lastProcessed, newItems >>
    /\ UNCHANGED << rssStatus, feedCycles, skips, deliveredNow, dispatchedBefore >>
    /\ UNCHANGED << contentVars, config, armed, oneShots, stickyVars >>

GetFavicon == AwaitGetFavicon /\ UNCHANGED webhookVars

\* the same with its result kept: faviconUrl is the icon, or null when there is
\* no domain or getFavicon threw
GetFaviconUrl ==
    /\ AwaitGetFavicon
    /\ faviconUrl' \in FaviconUrls
    /\ webhookSends' = 0

\* What one pass of the channel loop can come to: channels.fetch rejects or
\* gives no channel, no webhook is obtained, sendRssToWebhook gets a message
\* out (rich, without avatar, or plain) or all its sends fail.
DispatchOutcomes == { "fetchThrows", "noChannel", "noWebhook", "sent", "sendFailed" }

\* A pass of the channel loop is over, the message sent or not: the next
\* channel, the next item, or the end of the loop over newItems
EndPass(sent) ==
    LET ok == itemOk /\ sent
        guid == newItems[nidx].guid
    IN  IF chan < Len(FeedChannels)
        THEN /\ chan' = chan + 1
             /\ itemOk' = ok
             /\ rssPc' = "dispatch"
             /\ UNCHANGED << nidx, deliveredNow >>
        ELSE /\ deliveredNow' = IF ok /\ Truthy(guid)
                                THEN deliveredNow \cup { guid } ELSE deliveredNow
             /\ chan' = 1
             /\ itemOk' = TRUE
             /\ IF nidx < Len(newItems)
                THEN nidx' = nidx + 1 /\ rssPc' = "dispatch"
                ELSE nidx' = nidx /\ rssPc' = "updateRssStatus"

\* One pass of for (const channelId of feed.channels) for the current item
Dispatch ==
    /\ rssPc = "dispatch"
    /\ \E outcome \in DispatchOutcomes : EndPass(outcome = "sent")
    /\ UNCHANGED << rssStatus, isProcessing, bodies, fidx, feedThrew, feedItems, lastProcessed, newItems,
                    feedCycles, skips, dispatchedBefore >>
    /\ UNCHANGED << contentVars, webhookVars, config, armed, oneShots, stickyVars >>

\* ------------------------------------- the channel loop, await by await
\* what a step of a pass leaves alone
InPass ==
    /\ UNCHANGED << rssStatus, isProcessing, bodies, fidx, feedThrew, feedItems, lastProcessed, newItems,
                    feedCycles, skips, dispatchedBefore, faviconUrl >>
    /\ UNCHANGED << contentVars, config, armed, oneShots, stickyVars >>

\* the pass goes on to its next await
PassTo(label) ==
    /\ rssPc' = label
    /\ UNCHANGED << nidx, chan, itemOk, deliveredNow >>

\* the channel loop leaving the feed when channels.fetch rejects
FetchFeedChannelAborts ==
    /\ rssPc = "dispatch"
    /\ webhookSends' = 0
    /\ \/ PassTo("getWebhook") /\ InPass
       \/ EndPass(FALSE) /\ InPass
       \/ /\ FeedThrows
          /\ UNCHANGED << rssStatus, feedCycles, skips, deliveredNow, dispatchedBefore,
                          faviconUrl >>
          /\ UNCHANGED << contentVars, config, armed, oneShots, stickyVars >>

\* await this.client.channels.fetch(channelId): the channel, no channel, or a
\* rejection caught by the catch of the pass
FetchFeedChannel ==
    /\ rssPc = "dispatch"
    /\ webhookSends' = 0
    /\ \/ PassTo("getWebhook")        \* the channel
       \/ EndPass(FALSE)              \* if (channel) fails, or channelError is logged
    /\ InPass

\* await getWebhookInChannel(channel): the webhook, or null (its own catch)
GetWebhookInChannel ==
    /\ rssPc = "getWebhook"
    /\ \/ PassTo("createRssEmbed")
       \/ EndPass(FALSE)
    /\ UNCHANGED webhookSends
    /\ InPass

\* sendRssToWebhook: await createRssEmbed(item, feed); an error goes to the
\* outer catch, which sends the plain message
CreateRssEmbed ==
    /\ rssPc = "createRssEmbed"
    /\ \/ PassTo("webhookSend")
       \/ PassTo("webhookFallback")
    /\ UNCHANGED webhookSends
    /\ InPass

\* sendRssToWebhook: await webhook.send(messageOptions); on an error the send
\* is repeated without avatarURL when one was set, else the error is thrown on
WebhookSend ==
    /\ rssPc = "webhookSend"
    /\ webhookSends' = webhookSends + 1
    /\ \/ EndPass(TRUE)
       \/ PassTo(IF faviconUrl # Null THEN "webhookRetry" ELSE "webhookFallback")
    /\ InPass

\* sendRssToWebhook: delete messageOptions.avatarURL; await webhook.send(messageOptions)
WebhookRetry ==
    /\ rssPc = "webhookRetry"
    /\ webhookSends' = webhookSends + 1
    /\ \/ EndPass(TRUE)
       \/ PassTo("webhookFallback")
    /\ InPass

\* sendRssToWebhook, catch (error): await webhook.send of the plain message;
\* fallbackError is logged
WebhookFallback ==
    /\ rssPc = "webhookFallback"
    /\ webhookSends' = webhookSends + 1
    /\ \/ EndPass(TRUE)
       \/ EndPass(FALSE)
    /\ InPass

\* the cursor update taking the first element of newItems
UpdateRssStatusFirstItem ==
    /\ rssPc = "updateRssStatus"
    /\ \/ /\ rssStatus' = [ rssStatus EXCEPT ![rssFeeds[fidx]] =
                 CursorRecord(rssFeeds[fidx], newItems[1]) ]
          /\ dispatchedBefore' = dispatchedBefore \cup deliveredNow
       \/ UNCHANGED << rssStatus, dispatchedBefore >>
    /\ AdvanceFeed
    /\ UNCHANGED << feedCycles, skips, deliveredNow >>
    /\ UNCHANGED << contentVars, webhookVars, config, armed, oneShots, stickyVars >>

\* await this.rssDatabase.updateRssStatus(feed.url, lastItemId, lastPublishDate,
\* lastTitle) for the last element of newItems; an error is logged
UpdateRssStatus ==
    /\ rssPc = "updateRssStatus"
    /\ \/ /\ rssStatus' = [ rssStatus EXCEPT ![rssFeeds[fidx]] =
                 CursorRecord(rssFeeds[fidx], newItems[Len(newItems)]) ]
          /\ dispatchedBefore' = dispatchedBefore \cup deliveredNow
       \/ UNCHANGED << rssStatus, dispatchedBefore >>
    /\ AdvanceFeed
    /\ UNCHANGED << feedCycles, skips, deliveredNow >>
    /\ UNCHANGED << contentVars, webhookVars, config, armed, oneShots, stickyVars >>

\* One step of a processRssFeeds body under way
FeedSteps(fetched) ==
    \/ ParseURL(fetched)
    \/ GetRssStatus
    \/ GetFavicon
    \/ Dispatch
    \/ UpdateRssStatus

\* One step of the feed processing, the feeds answering with a batch of fetched
StepRss(fetched) ==
    \/ ProcessRssFeeds
    \/ ProcessRssFeedsSkipped
    \/ FeedSteps(fetched)

NextRss == StepRss(FeedBatches)

SpecRss == Init /\ [][NextRss]_vars

\* The documents an earlier run can have left in rss_status for a feed
SavedCursors == { NoDoc } \cup { CursorRecord("f1", item) : item \in FeedItems }

\* The bot starts with any saved cursor and the feed then publishes one item of
\* any shape per poll
InitClassify ==
    \E doc \in SavedCursors :
        Startup(Streamers, Feeds, DefaultScheduler, DefaultNotification, [ f \in FeedUrls |-> IF f = "f1" THEN doc ELSE NoDoc ])

NextClassify == StepRss(SingleItemBatches)

SpecClassify == InitClassify /\ [][NextClassify]_vars

\* The bot configured with two streamers and two feeds. The content cycle and
\* the feed processing share no state, so each is run on its own.
InitSources == Startup(TwoStreamers, TwoFeeds, DefaultScheduler, DefaultNotification, [ f \in FeedUrls |-> NoDoc ])

\* feedData.items with at most one item
ShortBatches == { items \in FeedBatches : Len(items) <= 1 }

NextSources ==
    \/ feedCycles = 0 /\ Step(1, OverlapBatches)
    \/ cycles = 0 /\ StepRss(ShortBatches)

SpecSources == InitSources /\ [][NextSources]_vars

\* Two streamers polled in sequential cycles, their fetches returning up to two
\* videos of one title
PlainBatches ==
    { vs \in Batches : Len(vs) <= 2 /\ \A j \in 1..Len(vs) : vs[j].title = "t1" }

NextStreamers == Step(1, PlainBatches)

SpecStreamers == InitSources /\ [][NextStreamers]_vars

\* Two feeds polled, each answering with at most two items
PairBatches == { items \in FeedBatches : Len(items) <= 2 }

NextFeeds == StepRss(PairBatches)

SpecFeeds == InitSources /\ [][NextFeeds]_vars

\* Feed processing with the sends of every pass followed, one feed
\* and batches of at most two items
NextWebhook ==
    \/ ProcessRssFeeds
    \/ ProcessRssFeedsSkipped
    \/ ParseURL(PairBatches)
    \/ GetRssStatus
    \/ GetFaviconUrl
    \/ FetchFeedChannel
    \/ GetWebhookInChannel
    \/ CreateRssEmbed
    \/ WebhookSend
    \/ WebhookRetry
    \/ WebhookFallback
    \/ UpdateRssStatus

SpecWebhook == Init /\ [][NextWebhook]_vars

\* processRssFeeds called with no feed, one feed or two; every awaited fetch, send
\* and store call settles, so a body under way takes its next step
FeedLists == { << >>, Feeds, TwoFeeds }

InitSettle ==
    \E configFeeds \in FeedLists :
        Startup(Streamers, configFeeds, DefaultScheduler, DefaultNotification, [ f \in FeedUrls |-> NoDoc ])

NextSettle == StepRss(ShortBatches)

SpecSettle == InitSettle /\ [][NextSettle]_vars /\ WF_vars(FeedSteps(ShortBatches))

\* ------------------------------------------- the triggers and the shutdown
\* startCronSchedule scheduling the task before the pattern is validated
StartCronScheduleUnvalidated ==
    IF scheduler.cronValid
    THEN cronTask' = TRUE /\ checkInterval' = checkInterval
    ELSE checkInterval' = TRUE /\ cronTask' = TRUE

\* startCronSchedule: a pattern cron.validate rejects throws inside the try, and
\* the catch falls back to startIntervalSchedule
StartCronSchedule ==
    IF scheduler.cronValid
    THEN cronTask' = TRUE /\ checkInterval' = checkInterval
    ELSE checkInterval' = TRUE /\ cronTask' = cronTask

\* startIntervalSchedule: this.checkInterval = setInterval(...)
StartIntervalSchedule == checkInterval' = TRUE /\ cronTask' = cronTask

\* startPeriodicCheck: the 5 s one-shot, then the schedule of the configured mode
StartPeriodicCheck ==
    /\ firstCheck' = TRUE
    /\ IF scheduler.mode = "cron" THEN StartCronSchedule ELSE StartIntervalSchedule

\* startRssService: with enabled feeds configured, startScheduledProcessing sets
\* the 5 s one-shot and the 10 minute cron task
StartRssService ==
    IF Len(rssFeeds) = 0
    THEN UNCHANGED << rssFirst, rssCronTask >>
    ELSE rssFirst' = TRUE /\ rssCronTask' = TRUE

\* client.once('ready'): nothing of the handler waits for a timer or the network
Ready ==
    /\ ~exited
    /\ ~ready
    /\ ready' = TRUE
    /\ StartPeriodicCheck
    /\ StartRssService
    /\ UNCHANGED << exited, shutdownRun, config, stickyVars, contentVars, rssVars >>

\* the 5 s one-shot of startPeriodicCheck fires
FirstCheckFires(p) ==
    /\ firstCheck
    /\ firstCheck' = FALSE
    /\ UNCHANGED rssFirst
    /\ CheckForNewContent(p)

\* a tick of the interval timer
IntervalFires(p) == checkInterval /\ StartCycle(p)

\* a tick of the content cron task
CronFires(p) == cronTask /\ StartCycle(p)

\* the 5 s one-shot of startScheduledProcessing fires
RssFirstFires ==
    /\ rssFirst
    /\ rssFirst' = FALSE
    /\ UNCHANGED firstCheck
    /\ (EnterProcessRssFeeds \/ SkipProcessRssFeeds)

\* a tick of the 10 minute cron task
RssCronFires == rssCronTask /\ (ProcessRssFeeds \/ ProcessRssFeedsSkipped)

\* getChannelConfig: the channel is configured and not disabled
GetChannelConfig(ch) == ch \in StickyChannels

\* clearTimeout has an effect on a timer that has not fired yet
ClearTimeout(ts, state) ==
    [ t \in Calls |-> IF t \in ts /\ state[t] = "armed" THEN "cleared" ELSE state[t] ]

\* what the steps of a call of sendStickyMessage leave alone
StickyRest == UNCHANGED << armed, oneShots, config, contentVars, rssVars >>

\* messageCreate: handleMessage of a message posted in ch, by a bot or by a user
HandleMessage(ch, bot) ==
    /\ messages < MaxMessages
    /\ messages' = messages + 1
    /\ uncovered' = IF ~bot /\ GetChannelConfig(ch)
                    THEN [ uncovered EXCEPT ![ch] = TRUE ] ELSE uncovered
    /\ IF bot \/ ~GetChannelConfig(ch) \/ ch \in stickyIsProcessing
       THEN UNCHANGED << timeouts, timeoutChannel, pendingTimeouts >>
       ELSE LET timeout == messages + 1 IN
            /\ timeouts' = [ ClearTimeout({ pendingTimeouts[ch] }, timeouts)
                               EXCEPT ![timeout] = "armed" ]
            /\ timeoutChannel' = [ timeoutChannel EXCEPT ![timeout] = ch ]
            /\ pendingTimeouts' = [ pendingTimeouts EXCEPT ![ch] = timeout ]
    /\ UNCHANGED << stickyIsProcessing, stickyMessageId, liveStickies, previousMessageId,
                    stickyFailed >>
    /\ StickyRest

\* a sticky timer fires: its callback enters sendStickyMessage
StickyTimeoutFires(t) ==
    /\ timeouts[t] = "armed"
    /\ timeouts' = [ timeouts EXCEPT ![t] = "getStickyMessageId" ]
    /\ stickyIsProcessing' = stickyIsProcessing \cup { timeoutChannel[t] }
    /\ UNCHANGED << messages, timeoutChannel, pendingTimeouts, stickyMessageId, liveStickies,
                    previousMessageId, uncovered, stickyFailed >>
    /\ StickyRest

\* POST /api/sticky-messages/:channelId/send: forceSendStickyMessage up to
\* await this.client.channels.fetch(channelId); without a channel configuration
\* it throws at once
ForceSendStickyMessage(f, ch) ==
    /\ f \in ForceCalls
    /\ timeouts[f] = "unset"
    /\ \A g \in ForceCalls : g < f => timeouts[g] # "unset"
    /\ timeoutChannel' = [ timeoutChannel EXCEPT ![f] = ch ]
    /\ timeouts' = [ timeouts EXCEPT ![f] = IF GetChannelConfig(ch) THEN "fetchChannel" ELSE "done" ]
    /\ UNCHANGED << messages, pendingTimeouts, stickyIsProcessing, stickyMessageId, liveStickies,
                    previousMessageId, uncovered, stickyFailed >>
    /\ StickyRest

\* forceSendStickyMessage: the channel is fetched and sendStickyMessage entered,
\* or the error is thrown on to the request handler
ForceFetchChannel(f) ==
    /\ timeouts[f] = "fetchChannel"
    /\ \/ /\ timeouts' = [ timeouts EXCEPT ![f] = "getStickyMessageId" ]
          /\ stickyIsProcessing' = stickyIsProcessing \cup { timeoutChannel[f] }
          /\ UNCHANGED stickyFailed
       \/ /\ timeouts' = [ timeouts EXCEPT ![f] = "done" ]
          /\ stickyFailed' = TRUE
          /\ UNCHANGED stickyIsProcessing
    /\ UNCHANGED << messages, timeoutChannel, pendingTimeouts, stickyMessageId, liveStickies,
                    previousMessageId, uncovered >>
    /\ StickyRest

\* a call of sendStickyMessage goes on to its next await
CallTo(t, label) ==
    /\ timeouts' = [ timeouts EXCEPT ![t] = label ]
    /\ UNCHANGED << messages, timeoutChannel, pendingTimeouts, stickyIsProcessing >>

\* deletePreviousStickyMessage: await this.getStickyMessageId(channelId), which
\* answers null when the read fails; without an id nothing is deleted
GetStickyMessageId(t) ==
    /\ timeouts[t] = "getStickyMessageId"
    /\ \/ /\ previousMessageId' = [ previousMessageId EXCEPT ![t] = stickyMessageId[timeoutChannel[t]] ]
          /\ CallTo(t, IF stickyMessageId[timeoutChannel[t]] = 0 THEN "send" ELSE "fetchPrevious")
          /\ UNCHANGED stickyFailed
       \/ /\ CallTo(t, "send")
          /\ stickyFailed' = TRUE
          /\ UNCHANGED previousMessageId
    /\ UNCHANGED << stickyMessageId, liveStickies, uncovered >>
    /\ StickyRest

\* deletePreviousStickyMessage: await channels.fetch, then
\* await channel.messages.fetch(previousMessageId).catch(() => null): the
\* message when it is still in the channel
FetchPreviousMessage(t) ==
    /\ timeouts[t] = "fetchPrevious"
    /\ \/ /\ CallTo(t, IF previousMessageId[t] \in liveStickies[timeoutChannel[t]]
                      THEN "deletePrevious" ELSE "send")
          /\ UNCHANGED stickyFailed
       \/ /\ CallTo(t, "send")        \* a fetch fails
          /\ stickyFailed' = TRUE
    /\ UNCHANGED << stickyMessageId, liveStickies, previousMessageId, uncovered >>
    /\ StickyRest

\* deletePreviousStickyMessage: await previousMessage.delete(); an error (the
\* message is gone already, or the request fails) is caught and logged
DeletePreviousStickyMessage(t) ==
    /\ timeouts[t] = "deletePrevious"
    /\ CallTo(t, "send")
    /\ \/ /\ liveStickies' = [ liveStickies EXCEPT ![timeoutChannel[t]] = @ \ { previousMessageId[t] } ]
          /\ UNCHANGED stickyFailed
       \/ /\ stickyFailed' = TRUE
          /\ UNCHANGED liveStickies
    /\ UNCHANGED << stickyMessageId, previousMessageId, uncovered >>
    /\ StickyRest

\* sendStickyMessage: finally; for a timer, then the callback's
\* pendingTimeouts.delete(message.channel.id)
StickyCallbackEnds(t) ==
    /\ timeouts' = [ timeouts EXCEPT ![t] = "done" ]
    /\ stickyIsProcessing' = stickyIsProcessing \ { timeoutChannel[t] }
    /\ pendingTimeouts' = IF t \in Timeouts
                          THEN [ pendingTimeouts EXCEPT ![timeoutChannel[t]] = 0 ]
                          ELSE pendingTimeouts
    /\ UNCHANGED << messages, timeoutChannel >>

\* sendStickyMessage: await webhook.send or channel.send; a rejection is caught
SendStickyMessage(t) ==
    /\ timeouts[t] = "send"
    /\ \/ /\ CallTo(t, "save")
          /\ liveStickies' = [ liveStickies EXCEPT ![timeoutChannel[t]] = @ \cup { t } ]
          /\ uncovered' = [ uncovered EXCEPT ![timeoutChannel[t]] = FALSE ]
          /\ UNCHANGED stickyFailed
       \/ /\ StickyCallbackEnds(t)
          /\ stickyFailed' = TRUE
          /\ UNCHANGED << liveStickies, uncovered >>
    /\ UNCHANGED << stickyMessageId, previousMessageId >>
    /\ StickyRest

\* sendStickyMessage: await saveStickyMessageId, which catches its errors
SaveStickyMessageId(t) ==
    /\ timeouts[t] = "save"
    /\ StickyCallbackEnds(t)
    /\ \/ /\ stickyMessageId' = [ stickyMessageId EXCEPT ![timeoutChannel[t]] = t ]
          /\ UNCHANGED stickyFailed
       \/ /\ stickyFailed' = TRUE
          /\ UNCHANGED stickyMessageId
    /\ UNCHANGED << liveStickies, previousMessageId, uncovered >>
    /\ StickyRest

\* One step of a call of sendStickyMessage
StepCall(t) ==
    \/ GetStickyMessageId(t)
    \/ FetchPreviousMessage(t)
    \/ DeletePreviousStickyMessage(t)
    \/ SendStickyMessage(t)
    \/ SaveStickyMessageId(t)

\* One step of the sticky message handler on messageCreate events and timers
StepSticky ==
    \/ \E ch \in MessageChannels, bot \in BOOLEAN : HandleMessage(ch, bot)
    \/ \E t \in Timeouts : StickyTimeoutFires(t) \/ StepCall(t)

\* One step of a forced send
StepForce ==
    \E f \in ForceCalls :
        \/ \E ch \in MessageChannels : ForceSendStickyMessage(f, ch)
        \/ ForceFetchChannel(f)
        \/ StepCall(f)

\* The sticky message handler under messages, timers and forced sends
NextSticky == StepSticky \/ StepForce

SpecSticky == Init /\ [][NextSticky]_vars


\* gracefulShutdown without the call of process.exit
GracefulShutdownStaysAlive ==
    /\ ~exited
    /\ shutdownRun' = TRUE
    /\ checkInterval' = FALSE
    /\ cronTask' = FALSE
    /\ timeouts' = ClearTimeout({ pendingTimeouts[ch] : ch \in MessageChannels }, timeouts)
    /\ pendingTimeouts' = [ ch \in MessageChannels |-> 0 ]
    /\ UNCHANGED << exited, ready, rssCronTask, oneShots, messages, timeoutChannel, stickyIsProcessing,
                    stickyMessageId, liveStickies, previousMessageId, uncovered, stickyFailed >>
    /\ UNCHANGED << config, contentVars, rssVars >>

\* SIGINT or SIGTERM: gracefulShutdown clears the interval timer, stops the cron
\* task, clears the sticky timeouts, stops the web server, destroys the client
\* and calls process.exit(0)
GracefulShutdown ==
    /\ ~exited
    /\ shutdownRun' = TRUE
    /\ checkInterval' = FALSE
    /\ cronTask' = FALSE
    /\ timeouts' = ClearTimeout({ pendingTimeouts[ch] : ch \in MessageChannels }, timeouts)
    /\ pendingTimeouts' = [ ch \in MessageChannels |-> 0 ]
    /\ exited' = TRUE
    /\ UNCHANGED << ready, rssCronTask, oneShots, messages, timeoutChannel, stickyIsProcessing,
                    stickyMessageId, liveStickies, previousMessageId, uncovered, stickyFailed >>
    /\ UNCHANGED << config, contentVars, rssVars >>

\* The bot is constructed with any scheduler configuration
InitLifecycle ==
    \E configScheduler \in Schedulers :
        Startup(Streamers, Feeds, configScheduler, DefaultNotification, [ f \in FeedUrls |-> NoDoc ])

\* What the process does until it exits: content cycles, feed processing and
\* sticky messages, each followed without the other two under way
NextLifecycle ==
    \/ Ready
    \/ GracefulShutdown
    \/ /\ ~exited /\ feedCycles + skips = 0 /\ messages = 0
       /\ \/ FirstCheckFires(1)
          \/ IntervalFires(1)
          \/ CronFires(1)
          \/ CheckSteps(1, OverlapBatches)
    \/ /\ ~exited /\ cycles = 0 /\ messages = 0
       /\ \/ RssFirstFires
          \/ RssCronFires
          \/ FeedSteps(ShortBatches)
    \/ /\ ~exited /\ cycles = 0 /\ feedCycles + skips = 0
       /\ StepSticky

SpecLifecycle == InitLifecycle /\ [][NextLifecycle]_vars

\* ------------------------------------------------------------ properties
\* The status stored for an item, null when no document exists
StoredStatus(i) == IF videoStatus[i].exists THEN videoStatus[i].status ELSE Null

\* checkNotificationStatus has returned its decision from the three reads
Decided(p) == pc[p] = "updateGet" /\ storeError[p] = "none"

\* checkNotificationStatus has returned (reads done) and the cycle is still
\* handling that video
PastCheck(p) ==
    /\ pc[p] \in { "updateGet", "updateSet", "evaluated", "fetchChannel", "send", "markAsSent" }
    /\ storeError[p] \in { "none", "write" }

NotifiesWith(p, kind) ==
    notificationCheck[p].shouldNotify /\ notificationCheck[p].notificationType = kind

\* C1: over sequential poll cycles, as long as every decided notification of an
\* item was delivered and committed, exactly one evaluation of the item decides
\* to notify with kind 'initial' (at most one ever, and one as soon as an
\* evaluation has read the store); with the initial marker recorded, an
\* evaluation never decides 'initial' again.
AtMostOnceInitial ==
    \A i \in Ids :
        /\ ~faults[i] => initialNotifies[i] <= 1
        /\ \A p \in Procs :
              PastCheck(p) /\ video(p).id = i
              => /\ initialNotifies[i] >= 1
                 /\ ~faults[i] => initialNotifies[i] = 1
        /\ \A p \in Procs :
              Decided(p) /\ video(p).id = i /\ sentNotifications[i].exists
              => ~NotifiesWith(p, "initial")

\* C1 witness: the committed item is observed again in a later cycle and is
\* not notified
AtMostOnceInitialWitness ==
    \E p \in Procs :
        /\ Decided(p) /\ cycles >= 2
        /\ sentNotifications[video(p).id].exists
        /\ ~faults[video(p).id] /\ initialNotifies[video(p).id] = 1
        /\ ~notificationCheck[p].shouldNotify

\* C2: for every (id, kind) at most one sent_notifications document is ever
\* created, also when poll cycles overlap.
NoDoubleCommit == \A d \in DocIds : markerWrites[d] <= 1

\* C3: markAsSent is invoked for a video only after channel.send resolved for
\* it in this cycle.
CommitOnlyAfterSend == \A p \in Procs : pc[p] = "markAsSent" => sendDone[p]

\* sendNotification threw for the video cycle p was handling
DeliveryThrows(p) ==
    /\ pc[p] \in { "fetchChannel", "send" }
    /\ pc'[p] \notin { "fetchChannel", "send", "markAsSent" }

\* C4: when the delivery of a decided notification of kind k fails, the next
\* evaluation that observes the item in the same lifecycle state decides to
\* notify with kind k again (the store is not written between the failure and
\* that evaluation, so the decision is the one taken on the store as the
\* failure leaves it).
RetryAfterDeliveryFailure ==
    [][ \A p \in Procs :
          DeliveryThrows(p)
          => LET v == video(p)
                 again == CheckNotificationStatus(
                             IF videoStatus'[v.id].exists
                             THEN videoStatus'[v.id].status ELSE Null,
                             getVideoStatus(v),
                             sentNotifications'[v.id].exists,
                             sentNotifications'[StatusChangeDocId(v.id)].exists)
             IN  /\ again.shouldNotify
                 /\ again.notificationType = notificationCheck[p].notificationType
      ]_vars

\* C5 as stated: a 'status_change' notification is decided if and only if the
\* stored status is 'upcoming', the current status is 'live' and no
\* status_change marker exists.
StatusChangeGatingAsStated ==
    \A p \in Procs :
        Decided(p)
        => ( NotifiesWith(p, "status_change")
             <=> /\ StoredStatus(video(p).id) = "upcoming"
                 /\ getVideoStatus(video(p)) = "live"
                 /\ ~sentNotifications[StatusChangeDocId(video(p).id)].exists )

\* C5: a 'status_change' notification is decided if and only if the initial
\* marker exists, the stored status is 'upcoming', the current status is 'live'
\* and no status_change marker exists.
StatusChangeGating ==
    \A p \in Procs :
        Decided(p)
        => ( NotifiesWith(p, "status_change")
             <=> /\ sentNotifications[video(p).id].exists
                 /\ StoredStatus(video(p).id) = "upcoming"
                 /\ getVideoStatus(video(p)) = "live"
                 /\ ~sentNotifications[StatusChangeDocId(video(p).id)].exists )

\* C5 witness: an upcoming -> live observation of a committed item decides
\* 'status_change'
StatusChangeGatingWitness ==
    \E p \in Procs :
        /\ Decided(p) /\ NotifiesWith(p, "status_change")
        /\ StoredStatus(video(p).id) = "upcoming"
        /\ sentNotifications[video(p).id].exists

\* C6: without an initial marker the decision is to notify with kind 'initial'
\* whatever the current and the stored status; an item observed 'live' whose
\* stored status is not 'upcoming' (first seen live, or staying live) never
\* gets a 'status_change'.
InitialHasPriority ==
    \A p \in Procs :
        Decided(p)
        => /\ ~sentNotifications[video(p).id].exists => NotifiesWith(p, "initial")
           /\ ( getVideoStatus(video(p)) = "live"
                /\ StoredStatus(video(p).id) \in { Null, "live" } )
              => ~NotifiesWith(p, "status_change")
           /\ ( sentNotifications[video(p).id].exists
                /\ getVideoStatus(video(p)) = "live"
                /\ StoredStatus(video(p).id) = "live" )
              => ~notificationCheck[p].shouldNotify

\* C6 witness: an ordinary video whose stored status is 'upcoming' and that has
\* no initial marker is notified with kind 'initial'
InitialHasPriorityWitness ==
    \E p \in Procs :
        /\ Decided(p) /\ NotifiesWith(p, "initial")
        /\ getVideoStatus(video(p)) = "video"
        /\ StoredStatus(video(p).id) = "upcoming"

\* C7: when shouldNotify returns without a store error, the video_status
\* document of the item holds the observed status and title, whatever the
\* decision.
StateTracked ==
    \A p \in Procs :
        pc[p] = "evaluated" /\ storeError[p] = "none"
        => /\ videoStatus[video(p).id].exists
           /\ videoStatus[video(p).id].status = getVideoStatus(video(p))
           /\ videoStatus[video(p).id].title = video(p).title

\* C7 witness: an evaluation that does not notify has replaced the stored
\* status and title
StateTrackedWitness ==
    \E p \in Procs :
        /\ pc[p] = "evaluated" /\ storeError[p] = "none"
        /\ ~notificationCheck[p].shouldNotify
        /\ notificationCheck[p].statusChanged
        /\ video(p).title = "t2" /\ cycles >= 2

\* C8: an item with an initial marker whose stored status is 'upcoming' and
\* that is observed 'live' gets a 'status_change' decision while no
\* status_change marker exists; once that marker exists no evaluation decides
\* 'status_change' again, whatever is observed.
AtMostOneStatusChange ==
    \A p \in Procs :
        Decided(p)
        => /\ ( /\ sentNotifications[video(p).id].exists
                /\ ~sentNotifications[StatusChangeDocId(video(p).id)].exists
                /\ StoredStatus(video(p).id) = "upcoming"
                /\ getVideoStatus(video(p)) = "live" )
              => NotifiesWith(p, "status_change")
           /\ sentNotifications[StatusChangeDocId(video(p).id)].exists
              => ~NotifiesWith(p, "status_change")

\* C8 witness: after the status_change marker the item regressed to 'upcoming'
\* and is observed 'live' again
AtMostOneStatusChangeWitness ==
    \E p \in Procs :
        /\ Decided(p)
        /\ sentNotifications[StatusChangeDocId(video(p).id)].exists
        /\ StoredStatus(video(p).id) = "upcoming"
        /\ getVideoStatus(video(p)) = "live"
        /\ ~notificationCheck[p].shouldNotify

\* C9: for an item with an initial marker, an observed change of status other
\* than upcoming -> live is not notified and the stored status becomes the
\* observed one.
SilentTransitions ==
    \A p \in Procs :
        ( /\ pc[p] = "evaluated" /\ storeError[p] = "none"
          /\ sentNotifications[video(p).id].exists
          /\ previousStatus[p] # Null
          /\ previousStatus[p] # getVideoStatus(video(p))
          /\ ~(previousStatus[p] = "upcoming" /\ getVideoStatus(video(p)) = "live") )
        => /\ ~notificationCheck[p].shouldNotify
           /\ StoredStatus(video(p).id) = getVideoStatus(video(p))

\* C9 witness: a regression live -> upcoming has been evaluated
SilentTransitionsWitness ==
    \E p \in Procs :
        /\ pc[p] = "evaluated" /\ storeError[p] = "none"
        /\ sentNotifications[video(p).id].exists
        /\ previousStatus[p] = "live"
        /\ getVideoStatus(video(p)) = "upcoming"
        /\ StoredStatus(video(p).id) = "upcoming"

\* C10: when a feed is polled again and its read cursor is the saved one, a
\* fetched batch of two or more items with distinct guids, each of which an
\* earlier cycle sent to every channel before saving its cursor, has no item
\* classified as new and nothing is dispatched.
RepollNeverRenotifies ==
    ( /\ rssPc \in { "dispatch", "updateRssStatus" }
      /\ rssStatus[rssFeeds[fidx]].exists
      /\ lastProcessed = CursorOf(rssStatus[rssFeeds[fidx]])
      /\ Len(feedItems) >= 2
      /\ \A k \in 1..Len(feedItems) :
            /\ Truthy(feedItems[k].guid)
            /\ feedItems[k].guid \in dispatchedBefore
            /\ \A j \in 1..Len(feedItems) :
                  j # k => feedItems[j].guid # feedItems[k].guid )
    => newItems = << >>

\* processRssFeeds has classified and sorted the fetched items of a feed
Classified == rssPc = "getFavicon"

\* The fetched item is among the new items
ClassifiedNew(item) == \E j \in 1..Len(newItems) : newItems[j] = item

\* C11: the classification of a fetched item follows the first applicable rule
\* only: with a guid on the item and lastItemId on the cursor the item is new
\* iff they differ (whatever the dates); else with a pubDate on the item and
\* lastPublishDate on the cursor it is new iff both are valid dates and the
\* item's is strictly later; else with a title on both it is new iff the titles
\* differ.
ClassificationPriority ==
    Classified
    => \A k \in 1..Len(feedItems) :
          LET item == feedItems[k]
              byGuid == item.guid # Null /\ lastProcessed.lastItemId # Null
              byDate == item.pubDate # NoDate /\ lastProcessed.lastPublishDate # NoDate
              byTitle == item.title # Null /\ lastProcessed.lastTitle # Null
          IN  /\ byGuid
                 => (ClassifiedNew(item) <=> item.guid # lastProcessed.lastItemId)
              /\ ~byGuid /\ byDate
                 => (ClassifiedNew(item)
                     <=> /\ item.pubDate.kind = "time"
                         /\ lastProcessed.lastPublishDate.kind = "time"
                         /\ item.pubDate.ms > lastProcessed.lastPublishDate.ms)
              /\ ~byGuid /\ ~byDate /\ byTitle
                 => (ClassifiedNew(item) <=> item.title # lastProcessed.lastTitle)

\* C11 witness: an item whose guid is the cursor's lastItemId and whose date is
\* later than the cursor's is classified not new
ClassificationPriorityWitness ==
    /\ Classified /\ Len(feedItems) = 1
    /\ feedItems[1].guid # Null /\ feedItems[1].guid = lastProcessed.lastItemId
    /\ feedItems[1].pubDate.kind = "time"
    /\ lastProcessed.lastPublishDate.kind = "time"
    /\ feedItems[1].pubDate.ms > lastProcessed.lastPublishDate.ms
    /\ newItems = << >>

\* C12: an item for which none of guid/lastItemId, pubDate/lastPublishDate and
\* title/lastTitle is present on both the item and the cursor is classified
\* new, in particular when there is no stored cursor.
DifferFailsOpen ==
    Classified
    => \A k \in 1..Len(feedItems) :
          LET item == feedItems[k]
          IN  ( /\ item.guid = Null \/ lastProcessed.lastItemId = Null
                /\ item.pubDate = NoDate \/ lastProcessed.lastPublishDate = NoDate
                /\ item.title = Null \/ lastProcessed.lastTitle = Null )
              => ClassifiedNew(item)

\* C12 witness: the cursor has a lastItemId and a lastTitle only, the item a
\* pubDate only, and the item is new
DifferFailsOpenWitness ==
    /\ Classified /\ Len(feedItems) = 1
    /\ rssStatus[rssFeeds[fidx]].exists
    /\ lastProcessed = CursorOf(rssStatus[rssFeeds[fidx]])
    /\ lastProcessed.lastItemId # Null /\ lastProcessed.lastTitle # Null
    /\ feedItems[1].guid = Null /\ feedItems[1].title = Null
    /\ feedItems[1].pubDate # NoDate
    /\ newItems = feedItems

\* The new items all carry valid publish dates, no two the same
ValidDistinctDates(items) ==
    \A j \in 1..Len(items) :
        /\ items[j].pubDate.kind = "time"
        /\ \A k \in 1..Len(items) : k # j => items[k].pubDate.ms # items[j].pubDate.ms

\* C13: when the new items of a batch all carry valid, distinct publish dates,
\* the dispatch loop hands them to sendRssToWebhook one after the other in
\* ascending order of publish date, whatever the fetched order.
DispatchAscending ==
    [][ ( /\ rssPc = "dispatch" /\ rssPc' = "dispatch"
          /\ nidx' # nidx
          /\ ValidDistinctDates(newItems) )
        => /\ nidx' = nidx + 1
           /\ newItems' = newItems
           /\ newItems[nidx].pubDate.ms < newItems[nidx'].pubDate.ms
      ]_vars

\* C13 witness: the batch fetched as [D3, D1, D2] is dispatched as [D1, D2, D3]
\* and the loop has reached D3
DispatchAscendingWitness ==
    /\ rssPc = "dispatch" /\ nidx = 3
    /\ Len(feedItems) = 3 /\ Len(newItems) = 3
    /\ feedItems[1].pubDate = At(2000)
    /\ feedItems[2].pubDate = At(1000)
    /\ feedItems[3].pubDate = At(1500)
    /\ newItems = << feedItems[2], feedItems[3], feedItems[1] >>

\* The new items all carry a guid, no two the same
DistinctGuids(items) ==
    \A j \in 1..Len(items) :
        /\ Truthy(items[j].guid)
        /\ \A k \in 1..Len(items) : k # j => items[k].guid # items[j].guid

\* C14: when a batch has three new items, the first is dispatched and the
\* dispatch of the second fails, the cursor saved at the end of the batch is
\* the first item's (or the cursor is left as it was): it is not moved to or
\* past the undelivered item.
CursorAdvanceExact ==
    [][ ( /\ rssPc = "updateRssStatus"
          /\ Len(newItems) = 3
          /\ DistinctGuids(newItems)
          /\ newItems[1].guid \in deliveredNow
          /\ newItems[2].guid \notin deliveredNow )
        => \/ rssStatus'[rssFeeds[fidx]] = rssStatus[rssFeeds[fidx]]
           \/ rssStatus'[rssFeeds[fidx]] = CursorRecord(rssFeeds[fidx], newItems[1])
      ]_vars

\* C15: in a content cycle and in a feed cycle, a source is left, by an error
\* thrown while it is fetched or processed as by its normal end, only for the
\* source that follows it in the configured list, and the cycle ends only after
\* the last source of the list.
SourcesIsolated ==
    [][ /\ \A p \in Procs :
              pc[p] # "idle" /\ (sidx'[p] # sidx[p] \/ pc'[p] = "idle")
              => IF sidx[p] < Len(streamers)
                 THEN sidx'[p] = sidx[p] + 1 /\ pc'[p] = "getLatestVideos"
                 ELSE pc'[p] = "idle"
        /\ rssPc # "idle" /\ (fidx' # fidx \/ rssPc' = "idle")
           => IF fidx < Len(rssFeeds)
              THEN fidx' = fidx + 1 /\ rssPc' = "parseURL"
              ELSE rssPc' = "idle" /\ ~isProcessing'
      ]_vars

\* C15 witness: the first streamer's check threw and the second streamer's
\* video is being evaluated in the same cycle
SourcesIsolatedWitness ==
    \E p \in Procs :
        /\ 1 \in threw[p] /\ sidx[p] = 2
        /\ pc[p] = "evaluated" /\ notificationCheck[p].shouldNotify

\* C16: a content poll cycle never starts while another invocation of
\* checkForNewContent is still running: at most one cycle is under way.
ContentNotReentrant == Cardinality({ p \in Procs : pc[p] # "idle" }) <= 1

\* C17: at most one processRssFeeds body is between setting isProcessing and
\* the finally block, and the flag is set exactly while one is; a call made
\* while the flag is set changes nothing: no feed is fetched, no item
\* dispatched, no cursor written, and the flag stays set.
FeedNotReentrant ==
    [][ /\ bodies' <= 1
        /\ isProcessing' <=> bodies' = 1
        /\ skips' # skips
           => /\ isProcessing /\ isProcessing'
              /\ UNCHANGED << rssStatus, bodies, rssPc, fidx, feedItems, lastProcessed,
                              newItems, nidx, chan, feedCycles, itemOk, deliveredNow,
                              dispatchedBefore, feedThrew >>
      ]_vars

\* C17 witness: a call was skipped while the running body is dispatching
FeedNotReentrantWitness ==
    /\ skips >= 1 /\ isProcessing /\ bodies = 1
    /\ rssPc = "dispatch"

\* A store read of checkNotificationStatus failed for the video cycle p handles
ReadFailed(p) == storeError[p] \in { "read", "both" }

\* C18: when a store read inside checkNotificationStatus fails, the decision is
\* not to notify, no delivery is attempted and no marker is written while the
\* cycle handles that item, whether an initial marker exists or not.
ReadFailureFailClosed ==
    [][ \A p \in Procs :
          /\ ReadFailed(p)'
             => /\ ~notificationCheck'[p].shouldNotify
                /\ pc'[p] \in { "updateGet", "updateSet", "evaluated" }
          /\ ReadFailed(p) /\ pc'[p] # pc[p]
             => /\ sentNotifications' = sentNotifications
                /\ markerWrites' = markerWrites
                /\ delivered' = delivered
      ]_vars

\* C18 witness: shouldNotify returned after a failed read for an item without
\* initial marker
ReadFailureFailClosedWitness ==
    \E p \in Procs :
        /\ storeError[p] = "read" /\ pc[p] = "evaluated"
        /\ ~sentNotifications[video(p).id].exists

\* C19: when the marker write of markAsSent fails after a delivered initial
\* notification, the cycle goes on with the next video (or streamer), no
\* marker exists for the item, and an evaluation of the item on the store as
\* it is left decides to notify with kind initial again, whatever the status
\* observed.
CommitFailureRenotifies ==
    [][ \A p \in Procs :
          ( /\ pc[p] = "markAsSent" /\ pc'[p] # "markAsSent"
            /\ sendDone[p]
            /\ notificationCheck[p].notificationType = "initial"
            /\ markerWrites' = markerWrites )
          => LET v == video(p)
             IN  /\ ~sentNotifications'[v.id].exists
                 /\ IF Len(videos[p]) > 1
                    THEN /\ pc'[p] = "readStatus"
                         /\ videos'[p] = Tail(videos[p])
                         /\ sidx'[p] = sidx[p]
                    ELSE IF sidx[p] < Len(streamers)
                    THEN pc'[p] = "getLatestVideos" /\ sidx'[p] = sidx[p] + 1
                    ELSE pc'[p] = "idle"
                 /\ \A current \in { "upcoming", "live", "video" } :
                       LET again == CheckNotificationStatus(
                                       IF videoStatus'[v.id].exists
                                       THEN videoStatus'[v.id].status ELSE Null,
                                       current,
                                       sentNotifications'[v.id].exists,
                                       sentNotifications'[StatusChangeDocId(v.id)].exists)
                       IN  again.shouldNotify /\ again.notificationType = "initial"
      ]_vars

\* C19 witness: an item that was delivered but has no marker is evaluated again
\* and the decision is to notify with kind initial
CommitFailureRenotifiesWitness ==
    \E p \in Procs :
        /\ Decided(p) /\ NotifiesWith(p, "initial")
        /\ delivered[video(p).id]
        /\ ~sentNotifications[video(p).id].exists

\* C20: a call of updateVideoStatus with the id, status and video info the
\* stored record already holds leaves the record (contentId, status, title,
\* streamerName, platform, createdAt) as it is; createdAt is set by the call
\* that inserts the record and kept by every later call.
UpsertIdempotent ==
    [][ \A p \in Procs :
          ( /\ pc[p] = "updateSet" /\ pc'[p] = "evaluated"
            /\ storeError'[p] = storeError[p] )
          => LET v == video(p)
                 old == videoStatus[v.id]
                 new == videoStatus'[v.id]
             IN  /\ new.exists
                 /\ old.exists => new.createdAt = old.createdAt
                 /\ ~old.exists => new.createdAt = cycles
                 /\ ( /\ old.exists
                      /\ old.status = getVideoStatus(v)
                      /\ old.title = OrEmpty(v.title) )
                    => new = old
      ]_vars

\* C20 witness: a record inserted in the first cycle has been upserted again
\* with the same status in the second cycle and keeps its createdAt
UpsertIdempotentWitness ==
    \E p \in Procs :
        /\ pc[p] = "evaluated" /\ storeError[p] = "none"
        /\ existed[p] /\ cycles = 2
        /\ previousStatus[p] = getVideoStatus(video(p))
        /\ videoStatus[video(p).id].createdAt = 1
        /\ videoStatus[video(p).id].title = video(p).title

\* An item of cycle p is between its evaluation and the commit of its marker:
\* shouldNotify decided to notify and markAsSent has not returned
InFlight(p) == pc[p] \in { "fetchChannel", "send", "markAsSent" }

\* C21: the process does not exit while an item is between its evaluation and
\* the commit of its marker: a shutdown signal arriving then lets the cycle
\* deliver and commit that item first.
ShutdownFinishesItem == exited => \A p \in Procs : ~InFlight(p)

\* The feed the running body is processing
CurrentFeed == rssFeeds[fidx]

\* C22: the cursor of a feed changes only in the step that follows the dispatch
\* loop of that feed's batch, the loop having reached the last new item; it
\* becomes the record of the last element of the sorted new items, whose date
\* is the latest when the dates are valid; the feed is left in the same step,
\* so a body writes a feed's cursor at most once; a feed without new items or
\* whose fetch failed, and every other feed, keep their cursors.
CursorAdvance ==
    [][ \A f \in FeedUrls :
          rssStatus'[f] # rssStatus[f]
          => /\ rssPc = "updateRssStatus"
             /\ f = CurrentFeed
             /\ newItems # << >>
             /\ nidx = Len(newItems)
             /\ rssStatus'[f] = CursorRecord(f, newItems[Len(newItems)])
             /\ ValidDistinctDates(newItems)
                => \A j \in 1..Len(newItems) :
                      newItems[j].pubDate.ms <= rssStatus'[f].lastPublishDate.ms
             /\ fidx' # fidx
      ]_vars

\* C22 witness: the first feed answered with g3 and g1; both were dispatched, the
\* cursor of the first feed is g3's and the second feed's cursor is untouched
CursorAdvanceWitness ==
    /\ fidx = 2 /\ rssPc = "parseURL"
    /\ { "g1", "g3" } \subseteq deliveredNow
    /\ rssStatus["f1"] = CursorRecord("f1", [ guid |-> "g3", pubDate |-> At(2000), title |-> "a" ])
    /\ ~rssStatus["f2"].exists

\* The item carries a publish date that parses
Dated(item) == item.pubDate.kind = "time"

\* C23: in the sorted new items, every item without a parseable publish date
\* (none, or one that does not parse) comes before every item with a valid
\* date, and the dated items are in ascending order of date.
UndatedSortFirst ==
    \A j, k \in 1..Len(newItems) :
        j < k =>
            /\ Dated(newItems[j]) => Dated(newItems[k])
            /\ Dated(newItems[j]) /\ Dated(newItems[k])
               => newItems[j].pubDate.ms <= newItems[k].pubDate.ms

\* C24: a processRssFeeds body that set isProcessing clears it again, however
\* its feeds end (normally, without new items, or by an error), provided every
\* awaited call settles; the flag is set exactly while a body is under way, so
\* a call is skipped only while one is.
FeedReturnsToIdle ==
    /\ isProcessing ~> ~isProcessing
    /\ [](isProcessing <=> rssPc # "idle")
    /\ [][skips' # skips => rssPc # "idle"]_vars

\* C24 witness: a first body has ended and the next call was not skipped: the
\* second body is under way
FeedReturnsToIdleWitness ==
    /\ feedCycles = 2 /\ skips = 0
    /\ isProcessing /\ rssPc = "getRssStatus"

\* The triggers that can still start a callback: timers and tasks set and not
\* cancelled, in a process that has not exited
LiveTriggers ==
    IF exited THEN { }
    ELSE { name \in { "checkInterval", "cronTask", "firstCheck", "rssFirst", "rssCronTask" } :
             \/ name = "checkInterval" /\ checkInterval
             \/ name = "cronTask" /\ cronTask
             \/ name = "firstCheck" /\ firstCheck
             \/ name = "rssFirst" /\ rssFirst
             \/ name = "rssCronTask" /\ rssCronTask }
         \cup { t \in Timeouts : timeouts[t] = "armed" }

SequentialItems ==
    [][ \A p \in Procs :
          /\ (pc'[p] = "readStatus" /\ videos'[p] # videos[p])
             => \/ pc[p] = "getLatestVideos"
                \/ /\ videos'[p] = Tail(videos[p])
                   /\ \/ pc[p] = "markAsSent"
                      \/ pc[p] = "evaluated" /\ ~notificationCheck[p].shouldNotify
          /\ (pc'[p] = "evaluated" /\ pc[p] # "evaluated")
             => pc[p] \in { "updateGet", "updateSet" } /\ videos'[p] = videos[p]
          /\ (pc'[p] = "fetchChannel" /\ pc[p] # "fetchChannel")
             => /\ pc[p] = "evaluated" /\ notificationCheck[p].shouldNotify
                /\ videos'[p] = videos[p]
          /\ (pc'[p] = "send" /\ pc[p] # "send")
             => pc[p] = "fetchChannel" /\ videos'[p] = videos[p]
          /\ (pc'[p] = "markAsSent" /\ pc[p] # "markAsSent")
             => pc[p] \in { "fetchChannel", "send" } /\ videos'[p] = videos[p]
          /\ sidx'[p] # sidx[p]
             => \/ sidx'[p] = sidx[p] + 1 /\ pc'[p] = "getLatestVideos"
                \/ sidx'[p] = 0 /\ sidx[p] = Len(streamers) /\ pc'[p] = "idle"
      ]_vars

\* C26 witness: in the first cycle the first item of the first streamer was
\* delivered and committed, and the evaluation of the second item begins
SequentialItemsWitness ==
    /\ cycles = 1 /\ sidx[1] = 1
    /\ pc[1] = "readStatus" /\ Len(videos[1]) = 1
    /\ \E i \in Ids : delivered[i] /\ markerWrites[MarkerDocId(i, "initial")] = 1

\* The key of a status_change marker is the key of no initial marker
KeysDistinct ==
    \A a, b \in VideoIds : MarkerDocId(a, "status_change") # MarkerDocId(b, "initial")

AtMostOneDeliveryPerCycle ==
    \A p \in Procs, d \in DocIds : invocations[p][d] <= 1

\* ------------------------------------------------------------------ C29
\* C29: in sendNotificationWithFallback the legacy send is tried as a retry only
\* after the Display Components send of the same video has failed with
\* fallbackToLegacy set, and only once: its outcome is the markAsSent of the
\* video or the end of the streamer's check with no marker written. With
\* fallbackToLegacy off the first failure ends the streamer's check with no
\* marker written. A video without a marker is sent again when a cycle meets it.
SingleFallbackRetry ==
    [][ /\ pc'[1] = "fallback" =>
              /\ pc[1] = "sendRich"
              /\ notification.fallbackToLegacy
              /\ videos' = videos
        /\ pc[1] = "sendRich" /\ pc'[1] \notin { "commit", "fallback" } =>
              /\ ~notification.fallbackToLegacy
              /\ pc'[1] \in { "idle", "getLatestVideos" }
              /\ videos'[1] = << >>
              /\ sentNotifications' = sentNotifications
        /\ pc[1] = "fallback" /\ pc'[1] # "commit" =>
              /\ pc'[1] \in { "idle", "getLatestVideos" }
              /\ videos'[1] = << >>
              /\ sentNotifications' = sentNotifications
        /\ pc'[1] = "commit" => pc[1] \in { "sendRich", "sendLegacy", "fallback" }
        /\ sentNotifications' # sentNotifications => pc[1] = "commit"
        /\ pc[1] = "isNewContent" /\ ~sentNotifications[video(1).id].exists =>
              pc'[1] \in { "sendRich", "sendLegacy" }
      ]_vars

\* both sends of a video of the first streamer have failed, fallbackToLegacy
\* being set: the streamer's check has thrown, no marker is written, the loop
\* is at the second streamer
SingleFallbackRetryWitness ==
    /\ notification.useDisplayComponents /\ notification.fallbackToLegacy
    /\ pc[1] = "getLatestVideos" /\ sidx[1] = 2
    /\ 1 \in threw[1]
    /\ cycles = 1
    /\ \A i \in Ids : faults[i] /\ ~delivered[i] /\ ~sentNotifications[i].exists

\* ------------------------------------------------------------------ C30
\* C30: a video id met under a second streamer entry is decided for that entry
\* alone: the first time the second streamer's check evaluates a video (first
\* cycle, first video of its batch, the store reads having succeeded) the
\* decision is an initial notification, whatever the first streamer's check
\* did with the same id.
SourcesKeyedIndependently ==
    ( /\ pc[1] = "evaluated"
      /\ cycles = 1
      /\ sidx[1] = 2
      /\ Len(videos[1]) = 2
      /\ storeError[1] = "none" )
    => /\ notificationCheck[1].shouldNotify
       /\ notificationCheck[1].notificationType = "initial"

\* ------------------------------------------------------------------ C31
\* C31: once a store read of checkNotificationStatus has failed for a video, no
\* step of the evaluation of that video changes the video_status collection.
FailedEvaluationKeepsStatus ==
    [][ storeError[1] \in { "read", "both" } => videoStatus' = videoStatus ]_vars

\* ------------------------------------------------------------------ C32
\* C32: when sendNotification throws for a video (channels.fetch or channel.send
\* rejects), the rest of the streamer's fetched list is dropped, no document of
\* the store is written, and the cycle goes on with the next streamer (or ends
\* after the last one); no step is taken for a streamer whose check has thrown.
DeliveryFailureCutsBatch ==
    /\ [](sidx[1] \notin threw[1])
    /\ [](pc[1] \notin { "idle", "getLatestVideos" } <=> videos[1] # << >>)
    /\ [][ ( /\ pc[1] \in { "fetchChannel", "send" }
             /\ pc'[1] \notin { "fetchChannel", "send", "markAsSent" } )
           => /\ videos'[1] = << >>
              /\ videoStatus' = videoStatus
              /\ sentNotifications' = sentNotifications
              /\ delivered' = delivered
              /\ sidx[1] \in threw'[1] \/ pc'[1] = "idle"
              /\ IF sidx[1] < Len(streamers)
                 THEN pc'[1] = "getLatestVideos" /\ sidx'[1] = sidx[1] + 1
                 ELSE pc'[1] = "idle" /\ sidx'[1] = 0
       ]_vars

\* C32 witness: the delivery of the first notified video of the first streamer
\* threw, nothing was delivered or marked, and the loop is at the second streamer
DeliveryFailureCutsBatchWitness ==
    /\ cycles = 1
    /\ pc[1] = "getLatestVideos" /\ sidx[1] = 2
    /\ threw[1] = { 1 }
    /\ \A i \in Ids : faults[i] /\ ~delivered[i]
    /\ \A d \in DocIds : ~sentNotifications[d].exists

\* ------------------------------------------------------------------ C33
\* updateVideoStatus threw inside shouldNotify for the video cycle p was handling
UpsertThrows(p) ==
    /\ pc[p] \in { "updateGet", "updateSet" }
    /\ pc'[p] = "evaluated"
    /\ storeError'[p] \in { "write", "both" }

\* what checkNotificationStatus decides for the video of cycle p on the store
\* as the step leaves it
DecidedAgain(p) ==
    CheckNotificationStatus(
        IF videoStatus'[video(p).id].exists THEN videoStatus'[video(p).id].status ELSE Null,
        getVideoStatus(video(p)),
        sentNotifications'[video(p).id].exists,
        sentNotifications'[StatusChangeDocId(video(p).id)].exists)

PassLabels ==
    { "dispatch", "getWebhook", "createRssEmbed", "webhookSend", "webhookRetry",
      "webhookFallback" }

\* C34: every pass of the channel loop, whatever it comes to (channels.fetch
\* rejects or gives no channel, no webhook, every send fails, or the message is
\* sent), is followed by the pass for the next channel of the item, after the
\* last channel by the pass for the first channel of the next new item, and
\* after the last item by the cursor update: the pairs (item, channel) are
\* attempted one by one in order and none is left out; within a pass the pair
\* does not change, the pass never leaves the feed, and at most three
\* webhook.send calls are made. (A step that changes skips is a call of
\* processRssFeeds returning at the isProcessing test, not a step of the pass.)
ChannelIsolation ==
    /\ [](webhookSends <= 3)
    /\ [](rssPc \in PassLabels =>
             nidx \in 1..Len(newItems) /\ chan \in 1..Len(FeedChannels))
    /\ [][ ( rssPc \in PassLabels /\ skips' = skips )
           => /\ rssPc' \in PassLabels \cup { "updateRssStatus" }
              /\ newItems' = newItems
              /\ fidx' = fidx
              /\ ( IF rssPc' \in PassLabels \ { "dispatch" }
                   THEN nidx' = nidx /\ chan' = chan
                   ELSE IF chan < Len(FeedChannels)
                   THEN rssPc' = "dispatch" /\ nidx' = nidx /\ chan' = chan + 1
                   ELSE IF nidx < Len(newItems)
                   THEN rssPc' = "dispatch" /\ nidx' = nidx + 1 /\ chan' = 1
                   ELSE rssPc' = "updateRssStatus" )
       ]_vars

\* C34 witness: for the first of two new items the three sends to the first
\* channel have all failed, and the pass for the second channel begins
ChannelIsolationWitness ==
    /\ rssPc = "dispatch"
    /\ Len(newItems) = 2 /\ nidx = 1 /\ chan = 2
    /\ faviconUrl # Null
    /\ webhookSends = 3
    /\ ~itemOk

\* ------------------------------------------------------------------ C35
\* C35: once the ready handler has run startPeriodicCheck, and until the
\* shutdown, exactly one of the cron task and the interval timer is armed: the
\* cron task when the mode is 'cron' and the pattern validates, the interval
\* timer for any other mode and for a 'cron' pattern that does not validate;
\* before that neither is armed.
OneTriggerPolicy ==
    /\ ~ready => ~cronTask /\ ~checkInterval
    /\ (ready /\ ~shutdownRun)
       => /\ cronTask # checkInterval
          /\ cronTask <=> (scheduler.mode = "cron" /\ scheduler.cronValid)

\* C35 witness: the mode is 'cron', the pattern did not validate, the interval
\* timer is armed in its place and has started a second cycle
OneTriggerPolicyWitness ==
    /\ ready /\ ~shutdownRun
    /\ scheduler.mode = "cron" /\ ~scheduler.cronValid
    /\ checkInterval /\ ~cronTask
    /\ cycles = 2

\* ------------------------------------------------------------------ C36
\* the timers of a channel that are set and have neither fired nor been cleared
PendingTimers(ch) == { t \in Timeouts : timeouts[t] = "armed" /\ timeoutChannel[t] = ch }

\* C36: a channel has at most one pending sticky timer at any time, and an
\* unconfigured channel has none; this is stated for the runs in which no
\* fetch, delete, send or store access fails.
StickyDebounce ==
    ~stickyFailed =>
        \A ch \in MessageChannels :
            /\ Cardinality(PendingTimers(ch)) <= 1
            /\ ~GetChannelConfig(ch) => PendingTimers(ch) = { }

\* Timers fire and awaited calls settle: every armed timer's callback runs and
\* every sendStickyMessage call in progress, forced ones included, takes
\* its next step; users and the web API are under no obligation.
FairSticky ==
    \A t \in Calls :
        /\ WF_vars(t \in Timeouts /\ StickyTimeoutFires(t))
        /\ WF_vars(t \in ForceCalls /\ ForceFetchChannel(t))
        /\ WF_vars(StepCall(t))

SpecStickyFair == SpecSticky /\ FairSticky

\* C37: the sticky message ends up last: after a user message in a configured
\* channel a sticky message is eventually posted in that channel, in the runs
\* in which no fetch, delete, send or store access fails.
StickyEndsUpLast ==
    \A ch \in MessageChannels : uncovered[ch] ~> ( ~uncovered[ch] \/ stickyFailed )

\* No call of sendStickyMessage, timer-driven or forced, is in progress
CallsCompleted == \A t \in Calls : timeouts[t] \in { "unset", "armed", "cleared", "done" }

\* C38: once the timer-driven and the forced calls of sendStickyMessage have
\* completed, a channel holds at most one sticky message that has not been
\* deleted, and the stored messageId of the channel is the id of that message;
\* this is stated for the runs in which no fetch, delete, send or store
\* access fails.
OneLiveSticky ==
    ( CallsCompleted /\ ~stickyFailed ) =>
        \A ch \in MessageChannels :
            /\ Cardinality(liveStickies[ch]) <= 1
            /\ liveStickies[ch] # { } => liveStickies[ch] = { stickyMessageId[ch] }
====
